---- MODULE Spec2Model ----
(***************************************************************************)
(* A model of the LMXML generation engine: the identifier registry         *)
(* (services/id_registry.py), the generation pipeline of                    *)
(* services/xml_methods (core.py and the handlers it drives), the          *)
(* XMLGenerator class of services/xml_generator.py that the HTTP           *)
(* controller instantiates once and shares, and the properties the         *)
(* specification states about them.                                        *)
(*                                                                         *)
(* Python values are modelled as follows.  A dict is the sequence of its   *)
(* items [k |-> key, v |-> value] in insertion order (Python dicts keep    *)
(* insertion order); a list is a sequence; an ID, a name and every XML     *)
(* attribute value is a string; depths and pressures are integers.  An     *)
(* XML element is [tag, attrs, children] with attrs a dict.                *)
(***************************************************************************)
EXTENDS Integers, Sequences, FiniteSets, TLC

(***************************************************************************)
(* Bounds of the model.                                                    *)
(***************************************************************************)
\* Size of the alphabet of IDs the random generator draws from (the code
\* draws 6 characters out of 62; the model draws one ID out of NumIds).
NumIds == 40
\* Number of different starting points of the random stream.
NumSeeds == 2
\* Registry-level specification: entities and relationships registered.
MaxRegIds == 2
MaxRels == 1
\* Calls of XMLGenerator.generate_xml served one after the other.
MaxCalls == 2

(***************************************************************************)
(* Python dicts and lists.                                                 *)
(***************************************************************************)
EmptyDict == << >>

DictIndex(d, key) == { i \in 1..Len(d) : d[i].k = key }

DictHas(d, key) == DictIndex(d, key) # {}

\* d.get(key, default)
DictGet(d, key, default) ==
    IF DictHas(d, key) THEN d[CHOOSE i \in DictIndex(d, key) : TRUE].v ELSE default

\* d[key] = value : replaces the value in place, or appends a new item
DictSet(d, key, value) ==
    IF DictHas(d, key)
    THEN [i \in 1..Len(d) |-> IF d[i].k = key THEN [k |-> key, v |-> value] ELSE d[i]]
    ELSE Append(d, [k |-> key, v |-> value])

DictKeys(d) == { d[i].k : i \in 1..Len(d) }

SeqToSet(s) == { s[i] : i \in 1..Len(s) }

\* truthiness of a dict or list
Truthy(x) == Len(x) > 0

\* the value None, and the empty string: both falsy where an ID is expected
None == "<None>"
IsFalsyStr(x) == x = None \/ x = ""

(***************************************************************************)
(* The random ID source.  random.choice draws from the interpreter-wide    *)
(* random state: the model keeps its position rng and the candidate it     *)
(* yields; a draw advances the position.                                   *)
(***************************************************************************)
IdOf(n) == "id" \o ToString(n)

Candidate(rng) == IdOf((rng % NumIds) + 1)

IdAlphabet == { IdOf(n) : n \in 1..NumIds }

(***************************************************************************)
(* IDRegistry (services/id_registry.py).                                   *)
(***************************************************************************)
\* IDRegistry.__init__
NewIDRegistry ==
    [id_map |-> EmptyDict, relationship_map |-> EmptyDict, entity_data |-> EmptyDict]

\* self.id_map.get(entity_type, [])
IdsOf(reg, entity_type) == DictGet(reg.id_map, entity_type, << >>)

\* IDRegistry._id_exists
IdExistsNever(reg, id_to_check) == FALSE

id_exists(reg, id_to_check) ==
    \E i \in 1..Len(reg.id_map) : id_to_check \in SeqToSet(reg.id_map[i].v)

\* the retry loop of generate_id: the first position, from rng on, whose
\* candidate is in no list
RECURSIVE FirstFree(_, _)
FirstFree(reg, rng) ==
    IF id_exists(reg, Candidate(rng)) THEN FirstFree(reg, rng + 1) ELSE rng

\* the loop ends only if some ID of the alphabet is unused
CanGenerate(reg) == \E id \in IdAlphabet : ~ id_exists(reg, id)

\* IDRegistry.generate_id: returns the new ID, the registry and the random
\* position after the call
generate_id(reg, rng, entity_type) ==
    LET pos    == FirstFree(reg, rng)
        new_id == Candidate(pos)
    IN  [id  |-> new_id,
         reg |-> [reg EXCEPT !.id_map =
                    DictSet(@, entity_type, Append(IdsOf(reg, entity_type), new_id))],
         rng |-> (pos + 1) % NumIds]

\* IDRegistry.register_entity
register_entity(reg, entity_type, entity_id, data) ==
    LET ids  == IdsOf(reg, entity_type)
        ids2 == IF entity_id \in SeqToSet(ids) THEN ids ELSE Append(ids, entity_id)
    IN  [reg EXCEPT
           !.id_map = DictSet(@, entity_type, ids2),
           !.entity_data = IF Truthy(data)
                           THEN DictSet(@, <<entity_type, entity_id>>, data)
                           ELSE @]

\* IDRegistry.get_entity_data (None is the empty dict here: both are falsy
\* and hold no key)
get_entity_data(reg, entity_type, entity_id) ==
    DictGet(reg.entity_data, <<entity_type, entity_id>>, EmptyDict)

\* IDRegistry.register_relationship
register_relationship(reg, parent_type, parent_id, child_type, child_id) ==
    LET key == <<parent_type, parent_id, child_type>>
    IN  [reg EXCEPT !.relationship_map =
           DictSet(@, key, Append(DictGet(@, key, << >>), child_id))]

\* IDRegistry.get_children
get_children(reg, parent_type, parent_id, child_type) ==
    DictGet(reg.relationship_map, <<parent_type, parent_id, child_type>>, << >>)

ParentError(parent_type, parent_id) ==
    "Referenced parent entity " \o parent_type \o ":" \o parent_id \o " does not exist"

ChildError(child_type, child_id) ==
    "Referenced child entity " \o child_type \o ":" \o child_id \o " does not exist"

RECURSIVE ChildErrors(_, _, _, _)
ChildErrors(reg, child_type, child_ids, j) ==
    IF j > Len(child_ids) THEN << >>
    ELSE (IF child_ids[j] \in SeqToSet(IdsOf(reg, child_type))
          THEN << >>
          ELSE << ChildError(child_type, child_ids[j]) >>)
         \o ChildErrors(reg, child_type, child_ids, j + 1)

RECURSIVE ValidateFrom(_, _)
ValidateFrom(reg, i) ==
    IF i > Len(reg.relationship_map) THEN << >>
    ELSE LET key == reg.relationship_map[i].k
             child_ids == reg.relationship_map[i].v
         IN  (IF key[2] \in SeqToSet(IdsOf(reg, key[1]))
              THEN << >>
              ELSE << ParentError(key[1], key[2]) >>)
             \o ChildErrors(reg, key[3], child_ids, 1)
             \o ValidateFrom(reg, i + 1)

\* a validation that stops at the first broken reference
validate_references_failfast(reg) ==
    LET all == ValidateFrom(reg, 1)
    IN  IF all = << >> THEN << >> ELSE << all[1] >>

\* IDRegistry.validate_references
validate_references(reg) == ValidateFrom(reg, 1)

(***************************************************************************)
(* XML elements (lxml).                                                    *)
(***************************************************************************)
KV(key, value) == [k |-> key, v |-> value]

\* ET.Element(tag) with the attributes attrs and no child
Elem(tag, attrs) == [tag |-> tag, attrs |-> attrs, children |-> << >>]

\* element.set(key, value)
ElemSet(e, key, value) == [e EXCEPT !.attrs = DictSet(@, key, value)]

\* element.get(key), None when the attribute is absent
ElemGet(e, key) == DictGet(e.attrs, key, None)

ElemHas(e, key) == DictHas(e.attrs, key)

\* parent.findall("./TAG") on a list of children
FindAll(children, tag) == SelectSeq(children, LAMBDA e : e.tag = tag)

\* for x in parent.findall("./TAG"): parent.remove(x), for every tag of tags
RemoveTags(children, tags) == SelectSeq(children, LAMBDA e : e.tag \notin tags)

\* utils/xml_helpers.py ATTRIBUTE_ORDER
ATTRIBUTE_ORDER ==
    << "WELL_ID", "WELLBORE_ID", "SITE_ID", "PROJECT_ID",
       "ASSEMBLY_ID", "ASSEMBLY_COMP_ID", "SCENARIO_ID", "CASE_ID",
       "DATUM_ID", "ORIGINAL_TUBULAR_DATUM_ID",
       "DLS_OVERRIDE_GROUP_ID", "DLS_OVERRIDE_ID",
       "TEMP_GRADIENT_GROUP_ID", "TEMP_GRADIENT_ID",
       "PORE_PRESSURE_GROUP_ID", "PORE_PRESSURE_ID",
       "FRAC_GRADIENT_GROUP_ID", "FRAC_GRADIENT_ID",
       "DEF_SURVEY_HEADER_ID", "DEFINITIVE_SURVEY_ID",
       "PACKER_NAME", "NAME", "PHASE", "TIGHT_GROUP_ID", "WELLBORE_NAME",
       "WELL_COMMON_NAME",
       "IS_LINKED", "SEQUENCE_NO", "IS_ACTIVE", "IS_READONLY", "IS_OFFSHORE",
       "STRING_TYPE", "STRING_CLASS", "ASSEMBLY_SIZE", "HOLE_SIZE",
       "ASSEMBLY_NAME", "CASE_NAME",
       "MD_ASSEMBLY_TOP", "MD_ASSEMBLY_BASE", "MD_TOC",
       "TOP_DEPTH", "BASE_DEPTH", "MD_TOP", "MD_BASE", "LENGTH", "DEPTH",
       "CREATE_DATE", "CREATE_USER_ID", "CREATE_APP_ID",
       "UPDATE_DATE", "UPDATE_USER_ID", "UPDATE_APP_ID" >>

\* element.set(key, value) for every item of items in turn, items holding no
\* key twice: an attribute the element has keeps its place and takes the new
\* value, the others are appended in the order of items
SetEach(e, items) ==
    [e EXCEPT !.attrs =
        [i \in 1..Len(e.attrs) |->
            IF DictHas(items, e.attrs[i].k)
            THEN KV(e.attrs[i].k, DictGet(items, e.attrs[i].k, None))
            ELSE e.attrs[i]]
        \o SelectSeq(items, LAMBDA item : ~ DictHas(e.attrs, item.k))]

\* xml_helpers.py 40-42: the attributes named in ATTRIBUTE_ORDER, in its order
SetListed(attributes) ==
    LET listed == SelectSeq(ATTRIBUTE_ORDER, LAMBDA attr : DictHas(attributes, attr))
    IN  [i \in 1..Len(listed) |-> KV(listed[i], DictGet(attributes, listed[i], None))]

\* xml_helpers.py 45-47: the remaining attributes, in the order of the dict
SetUnlisted(attributes) ==
    SelectSeq(attributes, LAMBDA item : item.k \notin SeqToSet(ATTRIBUTE_ORDER))

\* utils/xml_helpers.py set_attributes_ordered (every value the handlers put
\* into an attribute dict is a string already, so str() leaves it as it is)
set_attributes_ordered(e, attributes) ==
    SetEach(e, SetListed(attributes) \o SetUnlisted(attributes))

\* datetime.now() rendered by format_timestamp: "{ts '<now>'}"
format_timestamp(date_str) == "{ts '" \o date_str \o "'}"

NowStr == "now"

\* services/xml_methods/utils.py add_creation_info
add_creation_info(e) ==
    set_attributes_ordered(e,
        << KV("CREATE_DATE", format_timestamp(NowStr)),
           KV("UPDATE_DATE", format_timestamp(NowStr)),
           KV("CREATE_USER_ID", "API_USER"),
           KV("UPDATE_USER_ID", "API_USER"),
           KV("CREATE_APP_ID", "XML_API"),
           KV("UPDATE_APP_ID", "XML_API") >>)

\* utils/xml_helpers.py convert_camel_to_xml_key, on the field names of the
\* payload schema (models/schemas.py): a capital letter that follows a
\* lower-case letter or digit starts a new word, the result is upper-cased
convert_camel_to_xml_key(key) ==
    CASE key = "siteName"        -> "SITE_NAME"
      [] key = "siteId"          -> "SITE_ID"
      [] key = "projectId"       -> "PROJECT_ID"
      [] key = "locCountry"      -> "LOC_COUNTRY"
      [] key = "wellCommonName"  -> "WELL_COMMON_NAME"
      [] key = "wellId"          -> "WELL_ID"
      [] key = "wellboreId"      -> "WELLBORE_ID"
      [] key = "wellboreName"    -> "WELLBORE_NAME"
      [] key = "wellboreType"    -> "WELLBORE_TYPE"
      [] key = "isOffshore"      -> "IS_OFFSHORE"
      [] key = "isActive"        -> "IS_ACTIVE"
      [] key = "datumName"       -> "DATUM_NAME"
      [] key = "datumElevation"  -> "DATUM_ELEVATION"
      [] key = "materialName"    -> "MATERIAL_NAME"
      [] key = "grade"           -> "GRADE"
      [] key = "assemblyName"    -> "ASSEMBLY_NAME"
      [] key = "stringType"      -> "STRING_TYPE"
      [] key = "name"            -> "NAME"
      [] key = "phase"           -> "PHASE"
      [] key = "md"              -> "MD"
      [] key = "azimuth"         -> "AZIMUTH"
      [] key = "inclination"     -> "INCLINATION"
      [] key = "length"          -> "LENGTH"
      [] key = "groupId"         -> "GROUP_ID"
      [] key = "scenarioId"      -> "SCENARIO_ID"
      [] key = "overrides"       -> "OVERRIDES"
      [] key = "assemblySize"    -> "ASSEMBLY_SIZE"
      [] key = "holeSize"        -> "HOLE_SIZE"
      [] key = "density"         -> "DENSITY"
      [] key = "minYieldStress"  -> "MIN_YIELD_STRESS"
      [] key = "topDepth"        -> "TOP_DEPTH"
      [] key = "baseDepth"       -> "BASE_DEPTH"
      [] key = "materialId"      -> "MATERIAL_ID"
      [] OTHER                   -> key

\* the payload fields that hold numbers (fields.Float / fields.Integer of
\* models/schemas.py); every other scalar field holds a string
NumericKeys ==
    { "depth", "temperature", "pressure", "emw", "topDepth", "baseDepth",
      "bottomDepth", "doglegSeverity", "md", "azimuth", "inclination",
      "datumElevation", "length", "assemblySize", "holeSize",
      "outerDiameter", "innerDiameter", "weight", "axialStrength",
      "minYieldStress", "density" }

\* str(value) of the payload value stored under key: the schema loads a
\* number as a float, and str() of a float with no fraction ends in ".0"
StrFloat(value) == ToString(value) \o ".0"

Str(key, value) == IF key \in NumericKeys THEN StrFloat(value) ELSE value

\* str(value).upper() on the flag values a payload holds
Upper(value) ==
    CASE value = "y"    -> "Y"
      [] value = "n"    -> "N"
      [] value = "yes"  -> "YES"
      [] value = "true" -> "TRUE"
      [] value = "Casing" -> "CASING"
      [] value = "Tubing" -> "TUBING"
      [] value = "Liner"  -> "LINER"
      [] OTHER          -> value

\* "Y" if str(value).upper() in ['Y', 'YES', 'TRUE', '1'] else "N"
YesNo(value) == IF Upper(value) \in { "Y", "YES", "TRUE", "1" } THEN "Y" ELSE "N"

\* for key, value in d.items(): if key not in skip:
\*     attributes[convert_camel_to_xml_key(key)] = str(value)
RECURSIVE CopyItems(_, _, _, _)
CopyItems(attributes, d, i, skip) ==
    IF i > Len(d) THEN attributes
    ELSE CopyItems(IF d[i].k \in skip THEN attributes
                   ELSE DictSet(attributes, convert_camel_to_xml_key(d[i].k),
                                Str(d[i].k, d[i].v)),
                   d, i + 1, skip)

\* ET.SubElement(export_elem, tag) followed by set_attributes_ordered and
\* add_creation_info
NewOrdered(tag, attributes) ==
    add_creation_info(set_attributes_ordered(Elem(tag, EmptyDict), attributes))

\* the first ID of a type, or the default when the list is empty
FirstOr(ids, default) == IF Truthy(ids) THEN ids[1] ELSE default

(***************************************************************************)
(* Payload access.                                                         *)
(***************************************************************************)
\* d.get(key) is truthy (an ID that is present and not empty)
HasId(d, key) == ~ IsFalsyStr(DictGet(d, key, None))

\* d with the generated ID stored under id_key
WithNewId(g, d, id_key) ==
    [reg |-> g.reg, rng |-> g.rng, d |-> DictSet(d, id_key, g.id)]

\* "if not d.get(id_key): d[id_key] = generate_id(type)
\*  else: register_entity(type, d[id_key], d)"
EnsureId(reg, rng, d, id_key, entity_type) ==
    IF ~ HasId(d, id_key)
    THEN WithNewId(generate_id(reg, rng, entity_type), d, id_key)
    ELSE [reg |-> register_entity(reg, entity_type, DictGet(d, id_key, None), d),
          rng |-> rng, d |-> d]

\* the same, guarded by "if d and ..." (site, well, wellbore)
EnsureIdIfAny(reg, rng, d, id_key, entity_type) ==
    IF Truthy(d) THEN EnsureId(reg, rng, d, id_key, entity_type)
    ELSE [reg |-> reg, rng |-> rng, d |-> d]

\* writes a sub-dict back under its key when the payload holds it (the
\* Python code mutates the payload's own sub-dicts in place; a missing
\* section is a fresh {} that is not part of the payload)
PutBack(d, key, sub) == IF DictHas(d, key) THEN DictSet(d, key, sub) ELSE d

\* the rows of a loop written back into the dict that holds them
WithRows(r, d, key) ==
    [reg |-> r.reg, rng |-> r.rng, d |-> PutBack(d, key, r.rows)]

(***************************************************************************)
(* prepare_ids (services/xml_methods/ids.py).  The operators below take    *)
(* and return the registry, the random position and the part of the        *)
(* payload they write; an operator whose first parameter is e, g or a      *)
(* continues from the record its predecessor has returned.  Statements     *)
(* that follow one another are written as the image of the one value the   *)
(* statement before has produced: { F(x) : x \in { ... } }.                 *)
(***************************************************************************)
\* ids.py 50-53, g being the scenario ID generated at line 49
ScenarioLinked(g, well, wellbore) ==
    [reg |-> register_relationship(
                register_relationship(
                   register_entity(g.reg, "SCENARIO", g.id,
                      << KV("name", DictGet(well, "wellCommonName", "Scenario")) >>),
                   "WELL", DictGet(well, "wellId", None), "SCENARIO", g.id),
                "WELLBORE", DictGet(wellbore, "wellboreId", None), "SCENARIO", g.id),
     rng |-> g.rng]

\* ids.py 47-53: the scenario ID, when the payload has a well and a wellbore
PrepScenario(reg, rng, well, wellbore) ==
    IF Truthy(well) /\ Truthy(wellbore)
    THEN ScenarioLinked(generate_id(reg, rng, "SCENARIO"), well, wellbore)
    ELSE [reg |-> reg, rng |-> rng]

\* ids.py 75-82 and 245-252: "scenario_ids = id_map.get('SCENARIO', []);
\* if scenario_ids: register_relationship('SCENARIO', scenario_ids[0], ...)"
LinkFirstScenario(reg, child_type, child_id) ==
    IF Truthy(IdsOf(reg, "SCENARIO"))
    THEN register_relationship(reg, "SCENARIO", IdsOf(reg, "SCENARIO")[1],
                               child_type, child_id)
    ELSE reg

\* ids.py 91-96 and 123-128: the row linked to its group
RowLinked(e, id_key, row_type, group_type, group_id) ==
    [reg |-> register_relationship(e.reg, group_type, group_id, row_type,
                                   DictGet(e.d, id_key, None)),
     rng |-> e.rng, d |-> e.d]

\* ids.py 85-96 and 117-128: the IDs of the rows of a group (overrides of a
\* DLS group, stations of a survey header), each linked to the group
RECURSIVE PrepRows(_, _, _, _, _, _, _, _)
PrepRows(reg, rng, rows, i, id_key, row_type, group_type, group_id) ==
    IF i > Len(rows) THEN [reg |-> reg, rng |-> rng, rows |-> rows]
    ELSE CHOOSE r \in
           { PrepRows(e2.reg, e2.rng, [rows EXCEPT ![i] = e2.d], i + 1,
                      id_key, row_type, group_type, group_id) : e2 \in
           { RowLinked(e1, id_key, row_type, group_type, group_id) : e1 \in
           { EnsureId(reg, rng, rows[i], id_key, row_type) } } } : TRUE

\* ids.py 64-82: the group linked to the wellbore and to the scenario
DlsLinked(e, wellbore) ==
    IF Truthy(wellbore) /\ HasId(wellbore, "wellboreId")
    THEN [reg |-> LinkFirstScenario(
                     register_relationship(e.reg, "WELLBORE",
                        DictGet(wellbore, "wellboreId", None),
                        "DLS_OVERRIDE_GROUP", DictGet(e.d, "groupId", None)),
                     "DLS_OVERRIDE_GROUP", DictGet(e.d, "groupId", None)),
          rng |-> e.rng,
          d   |-> DictSet(e.d, "wellboreId", DictGet(wellbore, "wellboreId", None))]
    ELSE e

\* ids.py 84-96
DlsRows(e) ==
    WithRows(PrepRows(e.reg, e.rng, DictGet(e.d, "overrides", << >>), 1,
                      "overrideId", "DLS_OVERRIDE", "DLS_OVERRIDE_GROUP",
                      DictGet(e.d, "groupId", None)),
             e.d, "overrides")

\* ids.py 55-96: the DLS override group
PrepDls(reg, rng, dls_group, wellbore) ==
    IF ~ Truthy(dls_group) THEN [reg |-> reg, rng |-> rng, d |-> dls_group]
    ELSE CHOOSE r \in
           { DlsRows(e2) : e2 \in
           { DlsLinked(e1, wellbore) : e1 \in
           { EnsureId(reg, rng, dls_group, "groupId", "DLS_OVERRIDE_GROUP") } } } : TRUE

\* ids.py 106-114: the header linked to the wellbore
SurveyLinked(e, wellbore) ==
    IF Truthy(wellbore) /\ HasId(wellbore, "wellboreId")
    THEN [reg |-> register_relationship(e.reg, "WELLBORE",
                     DictGet(wellbore, "wellboreId", None),
                     "SURVEY_HEADER", DictGet(e.d, "headerId", None)),
          rng |-> e.rng,
          d   |-> DictSet(e.d, "wellboreId", DictGet(wellbore, "wellboreId", None))]
    ELSE e

\* ids.py 116-128
SurveyRows(e) ==
    WithRows(PrepRows(e.reg, e.rng, DictGet(e.d, "stations", << >>), 1,
                      "stationId", "SURVEY_STATION", "SURVEY_HEADER",
                      DictGet(e.d, "headerId", None)),
             e.d, "stations")

\* ids.py 98-128: the survey header
PrepSurvey(reg, rng, survey_header, wellbore) ==
    IF ~ Truthy(survey_header) THEN [reg |-> reg, rng |-> rng, d |-> survey_header]
    ELSE CHOOSE r \in
           { SurveyRows(e2) : e2 \in
           { SurveyLinked(e1, wellbore) : e1 \in
           { EnsureId(reg, rng, survey_header, "headerId", "SURVEY_HEADER") } } } : TRUE

\* ids.py 133, 147, 150: register_entity(group_type, group_id, {'name': name})
GroupRegistered(g, group_type, name) ==
    [reg |-> register_entity(g.reg, group_type, g.id, << KV("name", name) >>),
     rng |-> g.rng, id |-> g.id]

\* ids.py 132-133, 146-147, 149-150: a group ID generated for a formation
\* section and registered with its name
PrepGroup(reg, rng, group_type, name) ==
    GroupRegistered(generate_id(reg, rng, group_type), group_type, name)

\* ids.py 136-142, 153-165: the group linked to the wellbore
LinkGroup(reg, group_type, group_id, wellbore) ==
    IF Truthy(wellbore) /\ HasId(wellbore, "wellboreId")
    THEN register_relationship(reg, "WELLBORE", DictGet(wellbore, "wellboreId", None),
                               group_type, group_id)
    ELSE reg

TemperatureLinked(g, wellbore) ==
    [reg |-> LinkGroup(g.reg, "TEMP_GRADIENT_GROUP", g.id, wellbore), rng |-> g.rng]

\* ids.py 130-142
PrepTemperature(reg, rng, formation_inputs, wellbore) ==
    IF DictHas(formation_inputs, "temperatureProfiles")
    THEN TemperatureLinked(PrepGroup(reg, rng, "TEMP_GRADIENT_GROUP",
                                     "Geothermal Gradient"), wellbore)
    ELSE [reg |-> reg, rng |-> rng]

\* ids.py 152-165, p and f being the pore and the frac group
PressureLinked(p, f, wellbore) ==
    [reg |-> LinkGroup(LinkGroup(f.reg, "PORE_PRESSURE_GROUP", p.id, wellbore),
                       "FRAC_GRADIENT_GROUP", f.id, wellbore),
     rng |-> f.rng]

\* ids.py 149-165
FracGroup(p, wellbore) ==
    CHOOSE r \in
      { PressureLinked(p, f, wellbore) : f \in
      { PrepGroup(p.reg, p.rng, "FRAC_GRADIENT_GROUP", "Frac Gradient") } } : TRUE

\* ids.py 144-165
PrepPressure(reg, rng, formation_inputs, wellbore) ==
    IF DictHas(formation_inputs, "pressureProfiles")
    THEN CHOOSE r \in
           { FracGroup(p, wellbore) : p \in
           { PrepGroup(reg, rng, "PORE_PRESSURE_GROUP", "Pore Pressure") } } : TRUE
    ELSE [reg |-> reg, rng |-> rng]

\* ids.py 175-183: the datum linked to the well
DatumLinked(e, well) ==
    IF Truthy(well) /\ HasId(well, "wellId")
    THEN [reg |-> register_relationship(e.reg, "WELL", DictGet(well, "wellId", None),
                                        "DATUM", DictGet(e.d, "datumId", None)),
          rng |-> e.rng,
          d   |-> DictSet(e.d, "wellId", DictGet(well, "wellId", None))]
    ELSE e

\* ids.py 167-183
PrepDatum(reg, rng, datum, well) ==
    IF ~ Truthy(datum) THEN [reg |-> reg, rng |-> rng, d |-> datum]
    ELSE DatumLinked(EnsureId(reg, rng, datum, "datumId", "DATUM"), well)

\* ids.py 188-194
RECURSIVE PrepMaterials(_, _, _, _)
PrepMaterials(reg, rng, materials, i) ==
    IF i > Len(materials) THEN [reg |-> reg, rng |-> rng, rows |-> materials]
    ELSE CHOOSE r \in
           { PrepMaterials(e.reg, e.rng, [materials EXCEPT ![i] = e.d], i + 1) : e \in
           { EnsureId(reg, rng, materials[i], "materialId", "MATERIAL") } } : TRUE

\* ids.py 222-229: the assembly-component relationship
ComponentOfAssembly(e, assembly) ==
    IF HasId(assembly, "assemblyId") /\ HasId(e.d, "componentId")
    THEN [reg |-> register_relationship(e.reg, "ASSEMBLY",
                     DictGet(assembly, "assemblyId", None),
                     "ASSEMBLY_COMP", DictGet(e.d, "componentId", None)),
          rng |-> e.rng, d |-> e.d]
    ELSE e

\* ids.py 231-238: the material-component relationship
ComponentOfMaterial(e) ==
    IF HasId(e.d, "materialId") /\ HasId(e.d, "componentId")
    THEN [reg |-> register_relationship(e.reg, "MATERIAL",
                     DictGet(e.d, "materialId", None),
                     "ASSEMBLY_COMP", DictGet(e.d, "componentId", None)),
          rng |-> e.rng, d |-> e.d]
    ELSE e

\* ids.py 214-238: the components of one assembly
RECURSIVE PrepComponents(_, _, _, _, _)
PrepComponents(reg, rng, components, j, assembly) ==
    IF j > Len(components) THEN [reg |-> reg, rng |-> rng, rows |-> components]
    ELSE CHOOSE r \in
           { PrepComponents(e3.reg, e3.rng, [components EXCEPT ![j] = e3.d], j + 1,
                            assembly) : e3 \in
           { ComponentOfMaterial(e2) : e2 \in
           { ComponentOfAssembly(e1, assembly) : e1 \in
           { EnsureId(reg, rng, components[j], "componentId", "ASSEMBLY_COMP") }
           } } } : TRUE

\* ids.py 204-212: the assembly linked to the wellbore
AssemblyLinked(e, wellbore) ==
    IF Truthy(wellbore) /\ HasId(wellbore, "wellboreId")
    THEN [reg |-> register_relationship(e.reg, "WELLBORE",
                     DictGet(wellbore, "wellboreId", None),
                     "ASSEMBLY", DictGet(e.d, "assemblyId", None)),
          rng |-> e.rng,
          d   |-> DictSet(e.d, "wellboreId", DictGet(wellbore, "wellboreId", None))]
    ELSE e

\* ids.py 214-238
AssemblyComponents(a) ==
    WithRows(PrepComponents(a.reg, a.rng, DictGet(a.d, "components", << >>), 1, a.d),
             a.d, "components")

\* ids.py 242-260, g being the case ID generated at line 241
CaseLinked(g, assembly) ==
    [reg |-> register_relationship(
                LinkFirstScenario(
                   register_entity(g.reg, "CASE", g.id,
                      << KV("name", DictGet(assembly, "assemblyName", "Case")) >>),
                   "CASE", g.id),
                "ASSEMBLY", DictGet(assembly, "assemblyId", None), "CASE", g.id),
     rng |-> g.rng, d |-> assembly]

\* ids.py 240-260
AssemblyCase(a) ==
    CHOOSE r \in
      { CaseLinked(g, a.d) : g \in { generate_id(a.reg, a.rng, "CASE") } } : TRUE

\* ids.py 196-260: the assemblies, each with its components and its case
RECURSIVE PrepAssemblies(_, _, _, _, _)
PrepAssemblies(reg, rng, assemblies, i, wellbore) ==
    IF i > Len(assemblies) THEN [reg |-> reg, rng |-> rng, rows |-> assemblies]
    ELSE CHOOSE r \in
           { PrepAssemblies(a4.reg, a4.rng, [assemblies EXCEPT ![i] = a4.d], i + 1,
                            wellbore) : a4 \in
           { AssemblyCase(a3) : a3 \in
           { AssemblyComponents(a2) : a2 \in
           { AssemblyLinked(a1, wellbore) : a1 \in
           { EnsureId(reg, rng, assemblies[i], "assemblyId", "ASSEMBLY") }
           } } } } : TRUE

\* the site, well or wellbore dict of the payload, {} when it has none
ProjectPart(payload, key) ==
    DictGet(DictGet(payload, "projectInfo", EmptyDict), key, EmptyDict)

\* the dict section[key] of the payload written back (the Python code
\* mutates the payload's own sub-dicts in place)
WritePart(payload, section, key, d) ==
    PutBack(payload, section, PutBack(DictGet(payload, section, EmptyDict), key, d))

\* the state after a statement that has written the dict r.d, or the rows
\* r.rows, of the payload
Stored(r, payload, section, key) ==
    [reg |-> r.reg, rng |-> r.rng, payload |-> WritePart(payload, section, key, r.d)]

StoredRows(r, payload, section, key) ==
    [reg |-> r.reg, rng |-> r.rng, payload |-> WritePart(payload, section, key, r.rows)]

\* ids.py 12-13: generator.id_registry = IDRegistry()
FirstRegistry(reg) == NewIDRegistry

\* ids.py 32-34 and 43-45: the relationship of an entity to its parent
ParentLinked(e, id_key, entity_type, parent, parent_key, parent_type) ==
    IF Truthy(parent) /\ Truthy(e.d) /\ HasId(parent, parent_key) /\ HasId(e.d, id_key)
    THEN [reg |-> register_relationship(e.reg, parent_type,
                     DictGet(parent, parent_key, None),
                     entity_type, DictGet(e.d, id_key, None)),
          rng |-> e.rng, d |-> e.d]
    ELSE e

\* The statements of prepare_ids in turn.  Each takes and returns st: the
\* registry, the random position and the payload as written so far.
\* ids.py 18-23
PrepareSite(st) ==
    Stored(EnsureIdIfAny(st.reg, st.rng, ProjectPart(st.payload, "site"),
                         "siteId", "SITE"),
           st.payload, "projectInfo", "site")

\* ids.py 25-34
PrepareWell(st) ==
    Stored(ParentLinked(EnsureIdIfAny(st.reg, st.rng, ProjectPart(st.payload, "well"),
                                      "wellId", "WELL"),
                        "wellId", "WELL",
                        ProjectPart(st.payload, "site"), "siteId", "SITE"),
           st.payload, "projectInfo", "well")

\* ids.py 36-45
PrepareWellbore(st) ==
    Stored(ParentLinked(EnsureIdIfAny(st.reg, st.rng,
                                      ProjectPart(st.payload, "wellbore"),
                                      "wellboreId", "WELLBORE"),
                        "wellboreId", "WELLBORE",
                        ProjectPart(st.payload, "well"), "wellId", "WELL"),
           st.payload, "projectInfo", "wellbore")

\* the state after a statement that leaves the payload as it is
Kept(r, payload) == [reg |-> r.reg, rng |-> r.rng, payload |-> payload]

\* ids.py 47-53
PrepareScenario(st) ==
    Kept(PrepScenario(st.reg, st.rng, ProjectPart(st.payload, "well"),
                      ProjectPart(st.payload, "wellbore")),
         st.payload)

\* ids.py 55-96
PrepareDls(st) ==
    Stored(PrepDls(st.reg, st.rng,
                   DictGet(DictGet(st.payload, "formationInputs", EmptyDict),
                           "dlsOverrideGroup", EmptyDict),
                   ProjectPart(st.payload, "wellbore")),
           st.payload, "formationInputs", "dlsOverrideGroup")

\* ids.py 98-128
PrepareSurvey(st) ==
    Stored(PrepSurvey(st.reg, st.rng,
                      DictGet(DictGet(st.payload, "formationInputs", EmptyDict),
                              "surveyHeader", EmptyDict),
                      ProjectPart(st.payload, "wellbore")),
           st.payload, "formationInputs", "surveyHeader")

\* ids.py 130-142
PrepareTemperature(st) ==
    Kept(PrepTemperature(st.reg, st.rng,
                         DictGet(st.payload, "formationInputs", EmptyDict),
                         ProjectPart(st.payload, "wellbore")),
         st.payload)

\* ids.py 144-165
PreparePressure(st) ==
    Kept(PrepPressure(st.reg, st.rng,
                      DictGet(st.payload, "formationInputs", EmptyDict),
                      ProjectPart(st.payload, "wellbore")),
         st.payload)

\* the state after the datum statement, the datum being a section of its own
StoredDatum(r, payload) ==
    [reg |-> r.reg, rng |-> r.rng, payload |-> PutBack(payload, "datum", r.d)]

\* the datum statement of prepare_ids, were it to generate an ID also for a
\* datum that brings its own
PrepareDatum_fresh(st) ==
    StoredDatum(PrepDatum(st.reg, st.rng,
                          SelectSeq(DictGet(st.payload, "datum", EmptyDict),
                                    LAMBDA kv : kv.k # "datumId"),
                          ProjectPart(st.payload, "well")),
                st.payload)

\* ids.py 167-183
PrepareDatum(st) ==
    StoredDatum(PrepDatum(st.reg, st.rng, DictGet(st.payload, "datum", EmptyDict),
                          ProjectPart(st.payload, "well")),
                st.payload)

\* ids.py 185-194
PrepareMaterials(st) ==
    StoredRows(PrepMaterials(st.reg, st.rng,
                  DictGet(DictGet(st.payload, "casingSchematics", EmptyDict),
                          "materials", << >>), 1),
               st.payload, "casingSchematics", "materials")

\* ids.py 196-260
PrepareAssemblies(st) ==
    StoredRows(PrepAssemblies(st.reg, st.rng,
                  DictGet(DictGet(st.payload, "casingSchematics", EmptyDict),
                          "assemblies", << >>), 1,
                  ProjectPart(st.payload, "wellbore")),
               st.payload, "casingSchematics", "assemblies")

\* prepare_ids: the payload with the IDs written into it, the registry the
\* generator holds afterwards, and the random position.  The statements run
\* one after the other, each on the state its predecessor has left.
prepare_ids(old_reg, rng0, payload) ==
    CHOOSE st \in
      { PrepareAssemblies(s10) : s10 \in
      { PrepareMaterials(s9) : s9 \in
      { PrepareDatum(s8) : s8 \in
      { PreparePressure(s7) : s7 \in
      { PrepareTemperature(s6) : s6 \in
      { PrepareSurvey(s5) : s5 \in
      { PrepareDls(s4) : s4 \in
      { PrepareScenario(s3) : s3 \in
      { PrepareWellbore(s2) : s2 \in
      { PrepareWell(s1) : s1 \in
      { PrepareSite(s0) : s0 \in
      { [reg |-> FirstRegistry(old_reg), rng |-> rng0, payload |-> payload] }
      } } } } } } } } } } } : TRUE

(***************************************************************************)
(* The handlers of services/xml_methods.  A handler takes the children of  *)
(* the export element and returns them with what it removed or appended.   *)
(***************************************************************************)
\* clear.py 14-96 and xml_generator.py 91-172: the tags of the sections the
\* payload holds
ClearedTags(p) ==
    LET project_info == DictGet(p, "projectInfo", EmptyDict)
        formation_inputs == DictGet(p, "formationInputs", EmptyDict)
        casing_schematics == DictGet(p, "casingSchematics", EmptyDict)
    IN
            (IF DictHas(p, "projectInfo") /\ DictHas(project_info, "site")
             THEN { "CD_SITE" } ELSE {})
            \cup (IF DictHas(p, "projectInfo") /\ DictHas(project_info, "well")
                  THEN { "CD_WELL" } ELSE {})
            \cup (IF DictHas(p, "projectInfo") /\ DictHas(project_info, "wellbore")
                  THEN { "CD_WELLBORE" } ELSE {})
            \cup (IF DictHas(p, "formationInputs")
                     /\ DictHas(formation_inputs, "temperatureProfiles")
                  THEN { "CD_TEMPERATURE", "CD_TEMP_GRADIENT", "CD_TEMP_GRADIENT_GROUP" }
                  ELSE {})
            \cup (IF DictHas(p, "formationInputs")
                     /\ DictHas(formation_inputs, "pressureProfiles")
                  THEN { "CD_PORE_PRESSURE", "CD_FRAC_PRESSURE", "CD_HYDROSTATIC_PRESSURE",
                         "CD_PORE_PRESSURE_GROUP", "CD_FRAC_GRADIENT_GROUP",
                         "CD_FRAC_GRADIENT" }
                  ELSE {})
            \cup (IF DictHas(p, "formationInputs")
                     /\ DictHas(formation_inputs, "dlsOverrideGroup")
                  THEN { "TU_DLS_OVERRIDE_GROUP", "TU_DLS_OVERRIDE" } ELSE {})
            \cup (IF DictHas(p, "formationInputs")
                     /\ DictHas(formation_inputs, "surveyHeader")
                  THEN { "CD_DEFINITIVE_SURVEY_HEADER", "CD_DEFINITIVE_SURVEY_STATION" }
                  ELSE {})
            \cup (IF DictHas(p, "casingSchematics")
                     /\ DictHas(casing_schematics, "materials")
                  THEN { "CD_MATERIAL" } ELSE {})
            \cup (IF DictHas(p, "casingSchematics")
                     /\ DictHas(casing_schematics, "assemblies")
                  THEN { "CD_ASSEMBLY", "CD_ASSEMBLY_COMP" } ELSE {})
            \cup (IF DictHas(p, "datum") THEN { "CD_DATUM" } ELSE {})

\* clear_template_elements that purges the cases, scenarios, packers and
\* binary data only for a payload with casing schematics
clear_template_elements_lazy(export, p) ==
    RemoveTags(export, ClearedTags(p)
                       \cup (IF DictHas(p, "casingSchematics")
                             THEN { "CD_CASE", "CD_SCENARIO", "CD_WEQP_PACKER",
                                    "BINARY_DATA" }
                             ELSE {}))

\* clear.py clear_template_elements: the sections of the payload, and the
\* cases, scenarios, packers and binary data in any case (clear.py 98-109)
clear_template_elements(export, p) ==
    RemoveTags(export, ClearedTags(p)
                       \cup { "CD_CASE", "CD_SCENARIO", "CD_WEQP_PACKER", "BINARY_DATA" })

\* project_info.py 23-28
RECURSIVE SiteAttributes(_, _, _)
SiteAttributes(attributes, site, i) ==
    IF i > Len(site) THEN attributes
    ELSE SiteAttributes(
            IF site[i].k = "siteId" THEN DictSet(attributes, "SITE_ID", site[i].v)
            ELSE DictSet(attributes, convert_camel_to_xml_key(site[i].k),
                         Str(site[i].k, site[i].v)),
            site, i + 1)

\* project_info.py 46-56
RECURSIVE WellAttributes(_, _, _)
WellAttributes(attributes, well, i) ==
    IF i > Len(well) THEN attributes
    ELSE WellAttributes(
            CASE well[i].k = "wellId" -> DictSet(attributes, "WELL_ID", well[i].v)
              [] well[i].k = "siteId" -> DictSet(attributes, "SITE_ID", well[i].v)
              [] well[i].k = "isOffshore" ->
                    DictSet(attributes, "IS_OFFSHORE", YesNo(well[i].v))
              [] OTHER -> DictSet(attributes, convert_camel_to_xml_key(well[i].k),
                                  Str(well[i].k, well[i].v)),
            well, i + 1)

\* project_info.py 74-87
RECURSIVE WellboreAttributes(_, _, _)
WellboreAttributes(attributes, wellbore, i) ==
    IF i > Len(wellbore) THEN attributes
    ELSE WellboreAttributes(
            CASE wellbore[i].k = "wellboreId" ->
                    DictSet(attributes, "WELLBORE_ID", wellbore[i].v)
              [] wellbore[i].k = "wellId" -> DictSet(attributes, "WELL_ID", wellbore[i].v)
              [] wellbore[i].k = "isActive" ->
                    DictSet(attributes, "IS_ACTIVE", YesNo(wellbore[i].v))
              [] wellbore[i].k = "wellboreType" ->
                    DictSet(attributes, "WELLBORE_TYPE", wellbore[i].v)
              [] OTHER -> DictSet(attributes, convert_camel_to_xml_key(wellbore[i].k),
                                  Str(wellbore[i].k, wellbore[i].v)),
            wellbore, i + 1)

\* "if 'TIGHT_GROUP_ID' not in attributes: attributes['TIGHT_GROUP_ID'] = 'T0001'"
WithTightGroup(attributes) ==
    IF DictHas(attributes, "TIGHT_GROUP_ID") THEN attributes
    ELSE DictSet(attributes, "TIGHT_GROUP_ID", "T0001")

\* project_info.py update_project_info
update_project_info(export, project_info) ==
    IF ~ Truthy(project_info) THEN export
    ELSE LET e1 == IF DictHas(project_info, "site")
                   THEN Append(export, NewOrdered("CD_SITE",
                           WithTightGroup(SiteAttributes(EmptyDict,
                              DictGet(project_info, "site", EmptyDict), 1))))
                   ELSE export
             e2 == IF DictHas(project_info, "well")
                   THEN Append(e1, NewOrdered("CD_WELL",
                           WithTightGroup(WellAttributes(EmptyDict,
                              DictGet(project_info, "well", EmptyDict), 1))))
                   ELSE e1
             e3 == IF DictHas(project_info, "wellbore")
                   THEN Append(e2, NewOrdered("CD_WELLBORE",
                           WellboreAttributes(EmptyDict,
                              DictGet(project_info, "wellbore", EmptyDict), 1)))
                   ELSE e2
         IN  e3

\* scenario.py 99-103: the assembly a case is registered under, None if none
AssemblyOfCase(reg, case_id) ==
    LET hits == { i \in 1..Len(reg.relationship_map) :
                    /\ reg.relationship_map[i].k[1] = "ASSEMBLY"
                    /\ reg.relationship_map[i].k[3] = "CASE"
                    /\ case_id \in SeqToSet(reg.relationship_map[i].v) }
    IN  IF hits = {} THEN None
        ELSE reg.relationship_map[CHOOSE i \in hits : \A j \in hits : i <= j].k[2]

\* scenario.py 97-133: the loop over the case IDs
RECURSIVE CaseLoop(_, _, _, _)
CaseLoop(reg, export, case_ids, n) ==
    IF n > Len(case_ids) THEN export
    ELSE LET i == n - 1
             case_id == case_ids[n]
             assembly_id == AssemblyOfCase(reg, case_id)
             assembly_data == get_entity_data(reg, "ASSEMBLY", assembly_id)
             case_name == IF Truthy(assembly_data) /\ DictHas(assembly_data, "assemblyName")
                          THEN DictGet(assembly_data, "assemblyName", None)
                          ELSE "Case " \o ToString(i + 1)
             attributes ==
                << KV("WELL_ID", FirstOr(IdsOf(reg, "WELL"), "")),
                   KV("WELLBORE_ID", FirstOr(IdsOf(reg, "WELLBORE"), "")),
                   KV("CASE_ID", case_id),
                   KV("SCENARIO_ID", IdsOf(reg, "SCENARIO")[1]),
                   KV("ASSEMBLY_ID", assembly_id),
                   KV("IS_LINKED", "Y"),
                   KV("SEQUENCE_NO", StrFloat(i)),
                   KV("CASE_NAME", case_name) >>
         IN  IF IsFalsyStr(assembly_id)
             THEN CaseLoop(reg, export, case_ids, n + 1)
             ELSE CaseLoop(reg, Append(export, NewOrdered("CD_CASE", attributes)),
                           case_ids, n + 1)

\* a case linker without the guard of scenario.py 90-94
add_case_elements_unguarded(reg, export) ==
    IF \/ ~ Truthy(IdsOf(reg, "SCENARIO"))
       \/ ~ Truthy(IdsOf(reg, "ASSEMBLY"))
       \/ ~ Truthy(IdsOf(reg, "CASE"))
    THEN export
    ELSE CaseLoop(reg, export, IdsOf(reg, "CASE"), 1)

\* scenario.py add_case_elements
add_case_elements(reg, export) ==
    IF \/ ~ Truthy(IdsOf(reg, "SCENARIO"))
       \/ ~ Truthy(IdsOf(reg, "ASSEMBLY"))
       \/ ~ Truthy(IdsOf(reg, "CASE"))
    THEN export
    ELSE IF Truthy(FindAll(export, "CD_CASE")) THEN export
    ELSE CaseLoop(reg, export, IdsOf(reg, "CASE"), 1)

\* scenario.py add_scenario_element (its last statement calls
\* add_case_elements)
add_scenario_element(reg, export) ==
    LET well_ids == IdsOf(reg, "WELL")
        wellbore_ids == IdsOf(reg, "WELLBORE")
        scenario_ids == IdsOf(reg, "SCENARIO")
        temp_group_ids == IdsOf(reg, "TEMP_GRADIENT_GROUP")
        pore_group_ids == IdsOf(reg, "PORE_PRESSURE_GROUP")
        frac_group_ids == IdsOf(reg, "FRAC_GRADIENT_GROUP")
        survey_header_ids == IdsOf(reg, "SURVEY_HEADER")
        datum_ids == IdsOf(reg, "DATUM")
        a0 == << KV("WELL_ID", well_ids[1]), KV("WELLBORE_ID", wellbore_ids[1]),
                 KV("SCENARIO_ID", scenario_ids[1]), KV("PHASE", "PROTOTYPE") >>
        a1 == IF Truthy(datum_ids)
              THEN DictSet(DictSet(a0, "DATUM_ID", datum_ids[1]),
                           "ORIGINAL_TUBULAR_DATUM_ID", datum_ids[1])
              ELSE a0
        a2 == IF Truthy(temp_group_ids)
              THEN DictSet(a1, "TEMP_GRADIENT_GROUP_ID", temp_group_ids[1]) ELSE a1
        a3 == IF Truthy(pore_group_ids)
              THEN DictSet(a2, "PORE_PRESSURE_GROUP_ID", pore_group_ids[1]) ELSE a2
        a4 == IF Truthy(frac_group_ids)
              THEN DictSet(a3, "FRAC_GRADIENT_GROUP_ID", frac_group_ids[1]) ELSE a3
        a5 == IF Truthy(survey_header_ids)
              THEN DictSet(a4, "DEF_SURVEY_HEADER_ID", survey_header_ids[1]) ELSE a4
        well_data == get_entity_data(reg, "WELL", well_ids[1])
        a6 == IF Truthy(well_data) /\ DictHas(well_data, "wellCommonName")
              THEN DictSet(a5, "NAME", DictGet(well_data, "wellCommonName", None))
              ELSE DictSet(a5, "NAME", "Scenario")
    IN  IF ~ Truthy(scenario_ids) \/ ~ Truthy(wellbore_ids) \/ ~ Truthy(well_ids)
        THEN export
        ELSE add_case_elements(reg, Append(export, NewOrdered("CD_SCENARIO", a6)))

\* "if wellbore_ids: e.set('WELLBORE_ID', wellbore_ids[0])
\*      if well_ids: e.set('WELL_ID', well_ids[0])"
SetWellboreWell(attrs, reg) ==
    IF Truthy(IdsOf(reg, "WELLBORE"))
    THEN LET a == DictSet(attrs, "WELLBORE_ID", IdsOf(reg, "WELLBORE")[1])
         IN  IF Truthy(IdsOf(reg, "WELL"))
             THEN DictSet(a, "WELL_ID", IdsOf(reg, "WELL")[1])
             ELSE a
    ELSE attrs

SetIfHas(attrs, d, key, xml_key) ==
    IF DictHas(d, key) THEN DictSet(attrs, xml_key, Str(key, DictGet(d, key, None)))
    ELSE attrs

SetScenario(attrs, reg) ==
    IF Truthy(IdsOf(reg, "SCENARIO"))
    THEN DictSet(attrs, "SCENARIO_ID", IdsOf(reg, "SCENARIO")[1])
    ELSE attrs

\* an element whose attributes were set one by one, then add_creation_info
NewSet(tag, attrs) == add_creation_info(Elem(tag, attrs))

\* dls.py 43-70
RECURSIVE DlsOverrides(_, _, _, _, _)
DlsOverrides(reg, export, dls_override_group, overrides, i) ==
    IF i > Len(overrides) THEN export
    ELSE LET o  == overrides[i]
             a1 == SetIfHas(EmptyDict, o, "overrideId", "DLS_OVERRIDE_ID")
             a2 == DictSet(a1, "DLS_OVERRIDE_GROUP_ID",
                           DictGet(dls_override_group, "groupId", ""))
             a3 == SetScenario(SetWellboreWell(a2, reg), reg)
             a4 == SetIfHas(SetIfHas(SetIfHas(a3, o, "topDepth", "MD_TOP"),
                                     o, "baseDepth", "MD_BASE"),
                            o, "doglegSeverity", "DOGLEG_SEVERITY")
         IN  DlsOverrides(reg, Append(export, NewSet("TU_DLS_OVERRIDE", a4)),
                          dls_override_group, overrides, i + 1)

\* dls.py update_dls_overrides
update_dls_overrides(reg, export, dls_override_group) ==
    IF ~ Truthy(dls_override_group) THEN export
    ELSE LET a1 == SetIfHas(EmptyDict, dls_override_group, "groupId",
                            "DLS_OVERRIDE_GROUP_ID")
             a2 == SetScenario(SetWellboreWell(a1, reg), reg)
         IN  DlsOverrides(reg, Append(export, NewSet("TU_DLS_OVERRIDE_GROUP", a2)),
                          dls_override_group,
                          DictGet(dls_override_group, "overrides", << >>), 1)

\* survey.py 49-62 (a station gets no creation info)
RECURSIVE SurveyStations(_, _, _, _)
SurveyStations(export, survey_header, stations, i) ==
    IF i > Len(stations) THEN export
    ELSE LET st == stations[i]
             a1 == SetIfHas(EmptyDict, st, "stationId", "DEFINITIVE_SURVEY_ID")
             a2 == DictSet(a1, "DEF_SURVEY_HEADER_ID",
                           DictGet(survey_header, "headerId", ""))
             a3 == CopyItems(a2, st, 1, { "stationId" })
         IN  SurveyStations(Append(export, Elem("CD_DEFINITIVE_SURVEY_STATION", a3)),
                            survey_header, stations, i + 1)

\* survey.py update_survey_header
update_survey_header(reg, export, survey_header) ==
    IF ~ Truthy(survey_header) THEN export
    ELSE LET a1 == SetIfHas(EmptyDict, survey_header, "headerId", "DEF_SURVEY_HEADER_ID")
             a2 == SetWellboreWell(a1, reg)
             a3 == CopyItems(a2, survey_header, 1, { "headerId", "wellboreId", "stations" })
             a4 == IF DictHas(a3, "PHASE") THEN a3 ELSE DictSet(a3, "PHASE", "PROTOTYPE")
         IN  SurveyStations(Append(export, NewSet("CD_DEFINITIVE_SURVEY_HEADER", a4)),
                            survey_header, DictGet(survey_header, "stations", << >>), 1)

\* datum.py update_datum
update_datum(reg, export, datum) ==
    IF ~ Truthy(datum) THEN export
    ELSE LET a1 == SetIfHas(EmptyDict, datum, "datumId", "DATUM_ID")
             a2 == IF Truthy(IdsOf(reg, "WELL"))
                   THEN DictSet(a1, "WELL_ID", IdsOf(reg, "WELL")[1])
                   ELSE SetIfHas(a1, datum, "wellId", "WELL_ID")
             a3 == CopyItems(a2, datum, 1, { "datumId", "wellId" })
         IN  Append(export, NewSet("CD_DATUM", a3))

\* three decimals of a non-negative quotient, as a decimal string
Pad3(n) == IF n < 10 THEN "00" \o ToString(n)
           ELSE IF n < 100 THEN "0" \o ToString(n) ELSE ToString(n)

\* the quotient with the constant 0.52 in the place of 0.052
EmwStr_tenth(pressure, depth) ==
    IF depth > 0
    THEN LET q == (pressure * 25000) \div (13 * depth)
         IN  ToString(q \div 1000) \o "." \o Pad3(q % 1000)
    ELSE "0"

\* formation.py 110 and 150: str(pressure / (0.052 * depth)) if depth > 0,
\* else str(0).  The float quotient is kept to three decimals:
\* 1000 * pressure / (0.052 * depth) = 250000 * pressure / (13 * depth).
EmwStr(pressure, depth) ==
    IF depth > 0
    THEN LET q == (pressure * 250000) \div (13 * depth)
         IN  ToString(q \div 1000) \o "." \o Pad3(q % 1000)
    ELSE "0"

\* formation.py 38-43: the temperature of the first profile at depth 0
RECURSIVE SurfaceTemp(_, _, _)
SurfaceTemp(attrs, profiles, i) ==
    IF i > Len(profiles) THEN attrs
    ELSE IF DictGet(profiles[i], "depth", 0) = 0
         THEN DictSet(attrs, "SURFACE_AMBIENT_TEMP",
                      StrFloat(DictGet(profiles[i], "temperature", 0)))
         ELSE SurfaceTemp(attrs, profiles, i + 1)

\* formation.py 49-61: one CD_TEMP_GRADIENT for every profile below the
\* surface
RECURSIVE TempPoints(_, _, _, _, _, _)
TempPoints(reg, rng, export, profiles, i, temp_group_id) ==
    IF i > Len(profiles) THEN [reg |-> reg, rng |-> rng, export |-> export]
    ELSE IF DictGet(profiles[i], "depth", 0) > 0
         THEN LET g  == generate_id(reg, rng, "TEMP_GRADIENT")
                  a1 == << KV("TEMP_GRADIENT_GROUP_ID", temp_group_id),
                           KV("TEMP_GRADIENT_ID", g.id),
                           KV("TEMPERATURE",
                              StrFloat(DictGet(profiles[i], "temperature", 0))),
                           KV("TVD", StrFloat(DictGet(profiles[i], "depth", 0))) >>
                  a2 == SetWellboreWell(a1, reg)
              IN  TempPoints(g.reg, g.rng, Append(export, Elem("CD_TEMP_GRADIENT", a2)),
                             profiles, i + 1, temp_group_id)
         ELSE TempPoints(reg, rng, export, profiles, i + 1, temp_group_id)

\* formation.py 22-61
UpdateTemperature(reg, rng, export, formation_inputs) ==
    IF ~ DictHas(formation_inputs, "temperatureProfiles")
    THEN [reg |-> reg, rng |-> rng, export |-> export]
    ELSE LET profiles == DictGet(formation_inputs, "temperatureProfiles", << >>)
             temp_group_ids == IdsOf(reg, "TEMP_GRADIENT_GROUP")
             g  == IF Truthy(temp_group_ids)
                   THEN [id |-> temp_group_ids[1], reg |-> reg, rng |-> rng]
                   ELSE generate_id(reg, rng, "TEMP_GRADIENT_GROUP")
             a1 == << KV("TEMP_GRADIENT_GROUP_ID", g.id),
                      KV("NAME", "Geothermal Gradient"), KV("PHASE", "PROTOTYPE") >>
             a2 == SurfaceTemp(SetWellboreWell(a1, g.reg), profiles, 1)
         IN  TempPoints(g.reg, g.rng,
                        Append(export, NewSet("CD_TEMP_GRADIENT_GROUP", a2)),
                        profiles, 1, g.id)

\* formation.py 70-76
OfType(profiles, pressure_type) ==
    SelectSeq(profiles, LAMBDA q : DictGet(q, "pressureType", None) = pressure_type)

\* formation.py 97-117 and 138-157: the points of one pressure group
RECURSIVE PressurePoints(_, _, _, _, _, _, _)
PressurePoints(reg, rng, export, pressures, i, group_id, kind) ==
    IF i > Len(pressures) THEN [reg |-> reg, rng |-> rng, export |-> export]
    ELSE LET q  == pressures[i]
             g  == generate_id(reg, rng, kind.point_type)
             a1 == << KV(kind.group_key, group_id),
                      KV(kind.point_key, g.id),
                      KV(kind.pressure_key, StrFloat(DictGet(q, "pressure", 0))),
                      KV("TVD", StrFloat(DictGet(q, "depth", 0))) >>
             a2 == IF kind.permeable THEN DictSet(a1, "IS_PERMEABLE_ZONE", "Y") ELSE a1
             a3 == DictSet(a2, kind.emw_key,
                      IF DictHas(q, "emw") THEN StrFloat(DictGet(q, "emw", 0))
                      ELSE EmwStr(DictGet(q, "pressure", 0), DictGet(q, "depth", 0)))
             a4 == SetWellboreWell(a3, reg)
         IN  PressurePoints(g.reg, g.rng, Append(export, Elem(kind.point_tag, a4)),
                            pressures, i + 1, group_id, kind)

PoreKind ==
    [group_type |-> "PORE_PRESSURE_GROUP", group_tag |-> "CD_PORE_PRESSURE_GROUP",
     group_key |-> "PORE_PRESSURE_GROUP_ID", name |-> "Pore Pressure",
     point_type |-> "PORE_PRESSURE", point_tag |-> "CD_PORE_PRESSURE",
     point_key |-> "PORE_PRESSURE_ID", pressure_key |-> "PORE_PRESSURE",
     emw_key |-> "PORE_PRESSURE_EMW", permeable |-> TRUE]

FracKind ==
    [group_type |-> "FRAC_GRADIENT_GROUP", group_tag |-> "CD_FRAC_GRADIENT_GROUP",
     group_key |-> "FRAC_GRADIENT_GROUP_ID", name |-> "Frac Gradient",
     point_type |-> "FRAC_GRADIENT", point_tag |-> "CD_FRAC_GRADIENT",
     point_key |-> "FRAC_GRADIENT_ID", pressure_key |-> "FRAC_GRADIENT_PRESSURE",
     emw_key |-> "FRAC_GRADIENT_EMW", permeable |-> FALSE]

\* formation.py 79-117 (pore) and 120-157 (frac): the group element, made
\* only when the payload holds a row of the type, and its points
PressureGroup(reg, rng, export, pressures, kind) ==
    IF ~ Truthy(pressures) THEN [reg |-> reg, rng |-> rng, export |-> export]
    ELSE LET group_ids == IdsOf(reg, kind.group_type)
             g  == IF Truthy(group_ids)
                   THEN [id |-> group_ids[1], reg |-> reg, rng |-> rng]
                   ELSE generate_id(reg, rng, kind.group_type)
             a1 == << KV(kind.group_key, g.id), KV("NAME", kind.name),
                      KV("PHASE", "PROTOTYPE") >>
             a2 == SetWellboreWell(a1, g.reg)
         IN  PressurePoints(g.reg, g.rng, Append(export, NewSet(kind.group_tag, a2)),
                            pressures, 1, g.id, kind)

\* formation.py update_formation_inputs
update_formation_inputs(reg, rng, export, formation_inputs) ==
    IF ~ Truthy(formation_inputs) THEN [reg |-> reg, rng |-> rng, export |-> export]
    ELSE LET t == UpdateTemperature(reg, rng, export, formation_inputs)
             profiles == DictGet(formation_inputs, "pressureProfiles", << >>)
             p == PressureGroup(t.reg, t.rng, t.export, OfType(profiles, "Pore"), PoreKind)
             f == PressureGroup(p.reg, p.rng, p.export, OfType(profiles, "Frac"), FracKind)
         IN  IF DictHas(formation_inputs, "pressureProfiles") THEN f ELSE t

\* casing.py 28-82: the material elements and the name and grade lookups
RECURSIVE CasingMaterials(_, _, _, _, _, _, _)
CasingMaterials(reg, rng, export, materials, i, name_to_id, grade_to_id) ==
    IF i > Len(materials)
    THEN [reg |-> reg, rng |-> rng, export |-> export,
          material_name_to_id |-> name_to_id, material_grade_to_id |-> grade_to_id]
    ELSE LET material == materials[i]
             g  == IF DictHas(material, "materialId")
                   THEN [id |-> DictGet(material, "materialId", None),
                         reg |-> reg, rng |-> rng]
                   ELSE generate_id(reg, rng, "MATERIAL")
             n2 == IF DictHas(material, "materialName")
                   THEN DictSet(name_to_id, DictGet(material, "materialName", None), g.id)
                   ELSE name_to_id
             g2 == IF DictHas(material, "grade")
                   THEN DictSet(grade_to_id, DictGet(material, "grade", None), g.id)
                   ELSE grade_to_id
             a1 == << KV("MATERIAL_ID", g.id) >>
             a2 == SetIfHas(SetIfHas(SetIfHas(SetIfHas(SetIfHas(a1,
                      material, "grade", "GRADE"),
                      material, "thermalExpansionCoef", "THERMAL_EXPANSION_COEF"),
                      material, "poissonsRatio", "POISSONS_RATIO"),
                      material, "ultimateTensileStrength", "ULTIMATE_TENSILE_STRENGTH"),
                      material, "minYieldStress", "MIN_YIELD_STRESS")
             a3 == SetIfHas(a2, material, "materialName", "MATERIAL_NAME")
             a4 == CopyItems(a3, material, 1,
                      { "materialId", "grade", "thermalExpansionCoef", "poissonsRatio",
                        "ultimateTensileStrength", "minYieldStress", "materialName" })
             a5 == IF Truthy(IdsOf(g.reg, "WELL"))
                   THEN DictSet(a4, "WELL_ID", IdsOf(g.reg, "WELL")[1]) ELSE a4
             a6 == IF Truthy(IdsOf(g.reg, "WELLBORE"))
                   THEN DictSet(a5, "WELLBORE_ID", IdsOf(g.reg, "WELLBORE")[1]) ELSE a5
         IN  CasingMaterials(g.reg, g.rng, Append(export, NewOrdered("CD_MATERIAL", a6)),
                             materials, i + 1, n2, g2)

\* casing.py 148-157
ComponentTypeCodes(attrs, component) ==
    LET comp_type == Upper(DictGet(component, "componentType", ""))
        code == CASE comp_type = "CASING" -> "CAS"
                  [] comp_type = "TUBING" -> "TUB"
                  [] comp_type = "LINER"  -> "LIN"
                  [] OTHER -> None
    IN  IF code = None THEN attrs
        ELSE DictSet(DictSet(attrs, "SECT_TYPE_CODE", code), "COMP_TYPE_CODE", code)

\* casing.py 159-175: the material a component refers to
ComponentMaterial(component, name_to_id, grade_to_id) ==
    IF DictHas(component, "materialId") THEN DictGet(component, "materialId", None)
    ELSE IF DictHas(component, "materialName")
            /\ DictHas(name_to_id, DictGet(component, "materialName", None))
         THEN DictGet(name_to_id, DictGet(component, "materialName", None), None)
    ELSE IF DictHas(component, "grade")
            /\ DictHas(grade_to_id, DictGet(component, "grade", None))
         THEN DictGet(grade_to_id, DictGet(component, "grade", None), None)
    ELSE IF Truthy(name_to_id) THEN name_to_id[1].v
    ELSE ""

\* casing.py 178-195
RECURSIVE ComponentItems(_, _, _)
ComponentItems(attrs, component, i) ==
    IF i > Len(component) THEN attrs
    ELSE LET key == component[i].k
             value == Str(key, component[i].v)
         IN  ComponentItems(
                IF key \in { "componentId", "assemblyId", "wellboreId", "componentType",
                             "materialId", "materialName" }
                THEN attrs
                ELSE CASE key = "outerDiameter" -> DictSet(attrs, "OD_BODY", value)
                       [] key = "innerDiameter" -> DictSet(attrs, "ID_BODY", value)
                       [] key = "topDepth"      -> DictSet(attrs, "MD_TOP", value)
                       [] key = "bottomDepth"   -> DictSet(attrs, "MD_BASE", value)
                       [] key = "axialStrength" -> DictSet(attrs, "AXIAL_RATING", value)
                       [] key = "weight"        -> DictSet(attrs, "APPROXIMATE_WEIGHT", value)
                       [] OTHER -> DictSet(attrs, convert_camel_to_xml_key(key), value),
                component, i + 1)

\* casing.py 129-205: the component elements of one assembly
RECURSIVE CasingComponents(_, _, _, _, _, _, _)
CasingComponents(reg, export, assembly, components, n, name_to_id, grade_to_id) ==
    IF n > Len(components) THEN export
    ELSE LET component == components[n]
             a1 == SetIfHas(EmptyDict, component, "componentId", "ASSEMBLY_COMP_ID")
             a2 == SetIfHas(a1, assembly, "assemblyId", "ASSEMBLY_ID")
             a3 == ComponentTypeCodes(SetWellboreWell(a2, reg), component)
             a4 == DictSet(a3, "MATERIAL_ID",
                           ComponentMaterial(component, name_to_id, grade_to_id))
             a5 == ComponentItems(a4, component, 1)
             a6 == DictSet(a5, "SEQUENCE_NO", StrFloat(n - 1))
         IN  CasingComponents(reg, Append(export, NewOrdered("CD_ASSEMBLY_COMP", a6)),
                              assembly, components, n + 1, name_to_id, grade_to_id)

\* casing.py 86-205: the assembly elements, each followed by its components
RECURSIVE CasingAssemblies(_, _, _, _, _, _)
CasingAssemblies(reg, export, assemblies, i, name_to_id, grade_to_id) ==
    IF i > Len(assemblies) THEN export
    ELSE LET assembly == assemblies[i]
             a1 == SetIfHas(EmptyDict, assembly, "assemblyId", "ASSEMBLY_ID")
             a2 == SetWellboreWell(a1, reg)
             a3 == IF DictHas(assembly, "topDepth")
                   THEN SetIfHas(SetIfHas(SetIfHas(a2, assembly, "topDepth", "TOP_DEPTH"),
                                          assembly, "topDepth", "MD_ASSEMBLY_TOP"),
                                 assembly, "topDepth", "MD_TOC")
                   ELSE a2
             a4 == SetIfHas(SetIfHas(a3, assembly, "baseDepth", "BASE_DEPTH"),
                            assembly, "baseDepth", "MD_ASSEMBLY_BASE")
             a5 == CopyItems(a4, assembly, 1,
                      { "assemblyId", "wellboreId", "components", "topDepth", "baseDepth" })
             a6 == DictSet(a5, "IS_TOP_DOWN", "Y")
             e1 == Append(export, NewOrdered("CD_ASSEMBLY", a6))
             e2 == IF DictHas(assembly, "components")
                   THEN CasingComponents(reg, e1, assembly,
                                         DictGet(assembly, "components", << >>), 1,
                                         name_to_id, grade_to_id)
                   ELSE e1
         IN  CasingAssemblies(reg, e2, assemblies, i + 1, name_to_id, grade_to_id)

\* casing.py update_casing_schematics
update_casing_schematics(reg, rng, export, casing_schematics) ==
    IF ~ Truthy(casing_schematics) THEN [reg |-> reg, rng |-> rng, export |-> export]
    ELSE LET m == CasingMaterials(reg, rng, export,
                     DictGet(casing_schematics, "materials", << >>), 1,
                     EmptyDict, EmptyDict)
         IN  [reg |-> m.reg, rng |-> m.rng,
              export |-> CasingAssemblies(m.reg, m.export,
                            DictGet(casing_schematics, "assemblies", << >>), 1,
                            m.material_name_to_id, m.material_grade_to_id)]

(***************************************************************************)
(* generate_xml of services/xml_methods/core.py: loading the template,     *)
(* the fixed sections, the binary library, serialization.                  *)
(***************************************************************************)
\* an element with children
Tree(tag, attrs, children) == [tag |-> tag, attrs |-> attrs, children |-> children]

\* the document a call works on: the tag of the root, the root's children
\* other than the export element when the export element is not the root,
\* and the children of the export element
Doc(root, others, export) == [root |-> root, others |-> others, export |-> export]

\* core.py 36-62: the export element of the loaded template.  A root named
\* "root" is replaced by a new export element that takes the root's
\* children, those of an export child in its place; an export root is used
\* as it is; under any other root the export element is searched for, and
\* appended if there is none
LoadTemplate(template) ==
    IF template.tag = "root"
    THEN LET RECURSIVE Flatten(_)
             Flatten(i) ==
                 IF i > Len(template.children) THEN << >>
                 ELSE (IF template.children[i].tag = "export"
                       THEN template.children[i].children
                       ELSE << template.children[i] >>) \o Flatten(i + 1)
         IN  Doc("export", << >>, Flatten(1))
    ELSE IF template.tag = "export"
    THEN Doc("export", << >>, template.children)
    ELSE LET found == FindAll(template.children, "export")
         IN  Doc(template.tag,
                 SelectSeq(template.children, LAMBDA e : e.tag # "export")
                    \o (IF Len(found) > 1 THEN Tail(found) ELSE << >>),
                 IF Truthy(found) THEN found[1].children ELSE << >>)

\* core.py 64-103
TOPLEVEL ==
    Tree("TOPLEVEL", EmptyDict,
         << Elem("CD_GEO_SYSTEM",
                 << KV("GEO_SYSTEM_ID", "EPE Onshore NL"), KV("GEO_DATUM_ID", "AMERSFOORT"),
                    KV("MEASURE_ID", "121.0"), KV("GEO_SYSTEM_NAME", "EPE Onshore NL") >>),
            Elem("CD_GEO_ZONE",
                 << KV("GEO_SYSTEM_ID", "EPE Onshore NL"), KV("GEO_ZONE_ID", "RD New"),
                    KV("ZONE_NAME", "Amersfoort / RD New [1672_28992]"),
                    KV("LAT_ORIGIN", "52.1561605"), KV("LON_ORIGIN", "5.3876388"),
                    KV("SCALE_FACTOR", "0.9999079"), KV("FALSE_EASTING", "155000.0"),
                    KV("FALSE_NORTHING", "463000.0"), KV("PROJ_TYPE", "29.0") >>),
            Elem("CD_GEO_DATUM",
                 << KV("GEO_DATUM_ID", "AMERSFOORT"),
                    KV("DATUM_NAME", "Amersfoort [1672_4289]"),
                    KV("GEO_ELLIPSOID_ID", "BESSEL 1841"), KV("PMSHIFT", "0.0"),
                    KV("X_SHIFT", "565.04"), KV("Y_SHIFT", "49.91"),
                    KV("Z_SHIFT", "465.84"), KV("X_ROTATE", "-0.4094"),
                    KV("Y_ROTATE", "0.3597"), KV("Z_ROTATE", "-1.8685"),
                    KV("SCALE_FACTOR", "4.0772") >>),
            Elem("CD_GEO_ELLIPSOID",
                 << KV("GEO_ELLIPSOID_ID", "BESSEL 1841"), KV("NAME", "Bessel 1841"),
                    KV("SEMI_MAJOR", "6377397.155"),
                    KV("FIRST_ECCENTRICITY", "0.0816968312204014") >>) >>)

\* core.py 105-111
MD_SITE_TIGHT_GROUP ==
    Elem("MD_SITE_TIGHT_GROUP",
         << KV("TIGHT_GROUP_ID", "T0001"), KV("TIGHT_GROUP_NAME", "UNRESTRICTED"),
            KV("DESCRIPTION", "Unrestricted") >>)

\* core.py 113-129
CD_POLICY ==
    Elem("CD_POLICY",
         << KV("CUSTOMER_NAME", "CONCEPT WELL PLANNING - NL"),
            KV("POLICY_ID", "Pzrgw9f4JC"),
            KV("CUSTOMER_REPRESENTATIVE", "Application Support"),
            KV("CUSTOMER_TELEPHONE", "SSW-Support-UI-E@shell.com"),
            KV("IS_READONLY", "Y"),
            KV("REPORTING_TIME", "{ts '1970-01-01 00:00:00'}"),
            KV("CREATE_DATE", "{ts '2008-09-28 18:23:05'}"),
            KV("CREATE_USER_ID", "API_USER"), KV("CREATE_APP_ID", "XML_API"),
            KV("UPDATE_DATE", "{ts '2025-04-02 16:36:52'}"),
            KV("UPDATE_USER_ID", "API_USER"), KV("UPDATE_APP_ID", "XML_API"),
            KV("BA_CODE", "GL") >>)

\* core.py 64-129: the sections appended when the template lacks them
AddIfMissing(export, e) == IF Truthy(FindAll(export, e.tag)) THEN export ELSE Append(export, e)

FixedSections(export) ==
    AddIfMissing(AddIfMissing(AddIfMissing(export, TOPLEVEL), MD_SITE_TIGHT_GROUP),
                 CD_POLICY)

\* binary.py 64-88: the locator, a list of name=(value) parts joined by
\* "+", with the IDs of this generation written over the library's
NewLocator(reg, parts) ==
    LET p1 == DictSet(DictSet(parts, "policy_id", "Pzrgw9f4JC"),
                      "project_id", "dzwLFOVy7l")
        p2 == IF Truthy(IdsOf(reg, "SITE"))
              THEN DictSet(p1, "site_id", IdsOf(reg, "SITE")[1]) ELSE p1
        p3 == IF Truthy(IdsOf(reg, "WELL"))
              THEN DictSet(p2, "well_id", IdsOf(reg, "WELL")[1]) ELSE p2
        p4 == IF Truthy(IdsOf(reg, "WELLBORE"))
              THEN DictSet(p3, "wellbore_id", IdsOf(reg, "WELLBORE")[1]) ELSE p3
        p5 == IF Truthy(IdsOf(reg, "SCENARIO"))
              THEN DictSet(p4, "scenario_id", IdsOf(reg, "SCENARIO")[1]) ELSE p4
        RECURSIVE Join(_)
        Join(i) == IF i > Len(p5) THEN ""
                   ELSE (IF i > 1 THEN "+" ELSE "")
                        \o p5[i].k \o "=(" \o p5[i].v \o ")" \o Join(i + 1)
    IN  Join(1)

\* binary.py 54-92 and 99-103: the attributes of a journal or attachment
\* copied with the new IDs
RECURSIVE CopyJournalAttrs(_, _, _, _, _, _)
CopyJournalAttrs(reg, attrs, src, i, attachment_id, attachment_journal_id) ==
    IF i > Len(src) THEN attrs
    ELSE CopyJournalAttrs(reg,
            CASE src[i].k = "attachment_id" ->
                    DictSet(attrs, src[i].k, attachment_id)
              [] src[i].k = "attachment_journal_id" /\ attachment_journal_id # None ->
                    DictSet(attrs, src[i].k, attachment_journal_id)
              [] src[i].k = "attachment_locator" /\ attachment_journal_id # None ->
                    DictSet(attrs, src[i].k, NewLocator(reg, src[i].v))
              [] OTHER -> DictSet(attrs, src[i].k, src[i].v),
            src, i + 1, attachment_id, attachment_journal_id)

\* binary.py 45-119: one new journal for every journal of the library
RECURSIVE CopyJournals(_, _, _, _, _)
CopyJournals(reg, rng, journals, i, out) ==
    IF i > Len(journals) THEN [reg |-> reg, rng |-> rng, children |-> out]
    ELSE LET g1 == generate_id(reg, rng, "ATTACHMENT")
             g2 == generate_id(g1.reg, g1.rng, "ATTACHMENT_JOURNAL")
             attachments ==
                [n \in 1..Len(journals[i].children) |->
                    Tree("CD_ATTACHMENT",
                         CopyJournalAttrs(g2.reg, EmptyDict, journals[i].children[n].attrs,
                                          1, g1.id, None),
                         journals[i].children[n].children)]
             journal ==
                Tree("CD_ATTACHMENT_JOURNAL",
                     CopyJournalAttrs(g2.reg, EmptyDict, journals[i].attrs, 1, g1.id, g2.id),
                     attachments)
         IN  CopyJournals(g2.reg, g2.rng, journals, i + 1, Append(out, journal))

\* the binary library file: absent, or a BINARY_DATA element with journals
NoLibrary == [exists |-> FALSE, data |-> Elem("BINARY_DATA", EmptyDict)]

\* binary.py inject_binary_data
inject_binary_data(reg, rng, export, library) ==
    IF ~ library.exists THEN [reg |-> reg, rng |-> rng, export |-> export]
    ELSE LET js == CopyJournals(reg, rng,
                                FindAll(library.data.children, "CD_ATTACHMENT_JOURNAL"),
                                1, << >>)
         IN  [reg |-> js.reg, rng |-> js.rng,
              export |-> Append(export, Tree("BINARY_DATA", library.data.attrs, js.children))]

\* utils/xml_helpers.py xml_to_string followed by fix_xml_structure: the
\* returned string is the XML declaration, the DataServices processing
\* instruction and the tree.  fix_xml_structure re-parses the string and
\* serializes the root again, so the declaration written by xml_to_string
\* is replaced by the one fix_xml_structure prepends
XmlDeclaration == "<?xml version=\"1.0\" encoding=\"utf-8\"?>"

DataServices ==
    "<?DataServices DB_Major_Version=14;DB_Minor_Version=00;DB_Build_Version=000;DB_Version=EDM 5000.14.0 (14.00.00.000);expandPoint=CD_SCENARIO;?>"

xml_to_string(d) ==
    [preamble |-> << "<?xml version=\"1.0\" standalone=\"no\"?>", DataServices >>,
     root |-> d.root, others |-> d.others, export |-> d.export]

fix_xml_structure(x) ==
    [x EXCEPT !.preamble = << XmlDeclaration, DataServices >>]

(***************************************************************************)
(* The inputs: payloads that models/schemas.py PayloadSchema accepts,      *)
(* templates, binary libraries.  A section is a list holding the dict, or  *)
(* empty when the payload has no such key.                                 *)
(***************************************************************************)
\* an ID the payload supplies is a string of the client's choosing: the site
\* ID below is one the random source can also yield, the others are not
SiteNoId == << KV("siteName", "Site A") >>
SiteWithId == << KV("siteId", IdOf(1)), KV("siteName", "Site A") >>
WellNoId == << KV("wellCommonName", "Well A") >>
WellWithId == << KV("wellId", "well1"), KV("wellCommonName", "Well A") >>
WellOffshore == << KV("wellCommonName", "Well A"), KV("isOffshore", "Y") >>
\* a well whose wellId is the ID the site carries
WellSiteId == << KV("wellId", IdOf(1)), KV("wellCommonName", "Well A") >>
\* a well that names a site the payload does not hold
WellOtherSite ==
    << KV("wellId", "well1"), KV("siteId", "site9"), KV("wellCommonName", "Well A") >>
WellboreNoId == << KV("wellboreName", "Main") >>
WellboreWithId == << KV("wellboreId", "bore1"), KV("wellboreName", "Main") >>
WellB == << KV("wellId", "wellB"), KV("wellCommonName", "Well B") >>
WellboreB == << KV("wellboreId", "boreB"), KV("wellboreName", "Side") >>

ProjectInfos ==
    << << KV("site", SiteNoId), KV("well", WellNoId), KV("wellbore", WellboreNoId) >>,
       << KV("site", SiteWithId), KV("well", WellWithId), KV("wellbore", WellboreWithId) >>,
       << KV("site", SiteWithId), KV("well", WellSiteId), KV("wellbore", WellboreNoId) >>,
       << KV("site", SiteNoId), KV("well", WellOtherSite), KV("wellbore", WellboreNoId) >>,
       << KV("site", SiteNoId), KV("well", WellOffshore) >>,
       << KV("site", SiteNoId) >>,
       << KV("wellbore", WellboreWithId) >>,
       EmptyDict,
       << KV("site", SiteNoId), KV("well", WellB), KV("wellbore", WellboreB) >> >>

TempRows ==
    << << KV("depth", 0), KV("temperature", 15) >>,
       << KV("depth", 1000), KV("temperature", 50) >> >>
PoreRow == << KV("depth", 1000), KV("pressure", 520), KV("pressureType", "Pore") >>
FracRow == << KV("depth", 1000), KV("pressure", 780), KV("pressureType", "Frac") >>
SurfaceRow == << KV("depth", 0), KV("pressure", 0), KV("pressureType", "Pore") >>
HydroRow == << KV("depth", 1000), KV("pressure", 433), KV("pressureType", "Hydrostatic") >>
DlsGroup ==
    << KV("overrides",
          << << KV("topDepth", 0), KV("baseDepth", 500), KV("doglegSeverity", 3) >> >>) >>
SurveyHeader ==
    << KV("name", "Plan"),
       KV("stations",
          << << KV("azimuth", 0), KV("inclination", 0), KV("md", 0) >>,
             << KV("azimuth", 90), KV("inclination", 10), KV("md", 500) >> >>) >>

\* formationInputs sections; the first is "no formationInputs key"
FormationInputs ==
    << << >>,
       << << KV("temperatureProfiles", TempRows) >> >>,
       << << KV("pressureProfiles", << PoreRow >>) >> >>,
       << << KV("pressureProfiles", << FracRow >>) >> >>,
       << << KV("pressureProfiles", << PoreRow, FracRow, SurfaceRow >>) >> >>,
       << << KV("pressureProfiles", << >>) >> >>,
       << << KV("pressureProfiles", << HydroRow >>) >> >>,
       << << KV("temperatureProfiles", << >>),
             KV("pressureProfiles", << PoreRow, FracRow >>) >> >>,
       << << KV("dlsOverrideGroup", DlsGroup) >> >>,
       << << KV("surveyHeader", SurveyHeader) >> >>,
       << << KV("temperatureProfiles", TempRows),
             KV("pressureProfiles", << PoreRow, FracRow >>),
             KV("dlsOverrideGroup", DlsGroup), KV("surveyHeader", SurveyHeader) >> >>,
       << EmptyDict >> >>

Steel == << KV("materialName", "Steel"), KV("grade", "L80") >>
SteelWithId == << KV("materialId", "steel1"), KV("materialName", "Steel"), KV("grade", "L80") >>
Pipe ==
    << KV("componentType", "Casing"), KV("outerDiameter", 9), KV("innerDiameter", 8),
       KV("length", 500), KV("topDepth", 0), KV("bottomDepth", 500), KV("grade", "L80") >>
PipeOf(material_id) ==
    << KV("componentType", "Tubing"), KV("materialId", material_id),
       KV("topDepth", 0), KV("bottomDepth", 500) >>
Assembly(name, ids, components) ==
    ids \o << KV("assemblyName", name), KV("stringType", "Casing"),
              KV("assemblySize", 9), KV("holeSize", 12),
              KV("topDepth", 0), KV("baseDepth", 500),
              KV("components", components) >>

\* casingSchematics sections; the first is "no casingSchematics key"
BasicSchematics ==
    << << >>,
       << << KV("materials", << Steel >>),
             KV("assemblies", << Assembly("Surface", << >>, << Pipe >>) >>) >> >>,
       << << KV("materials", << SteelWithId >>),
             KV("assemblies",
                << Assembly("Surface", << KV("assemblyId", "asm1") >>,
                            << PipeOf("steel1") >>) >>) >> >>,
       << << KV("materials", << Steel >>),
             KV("assemblies",
                << Assembly("Surface", << >>, << PipeOf("mat8"), PipeOf("mat9") >>) >>) >> >>,
       << << KV("assemblies", << Assembly("Surface", << >>, << Pipe >>) >>) >> >>,
       << << KV("materials", << Steel >>),
             KV("assemblies",
                << Assembly("Surface", << KV("assemblyId", "asm1") >>, << Pipe >>),
                   Assembly("Production", << >>, << Pipe, Pipe >>) >>) >> >>,
       << << KV("materials", << Steel >>) >> >> >>

\* materials and components that tell the ways of resolving a MATERIAL_ID
\* apart: two materials of different name and grade, two of the same name
Alloy == << KV("materialName", "Alloy"), KV("grade", "P110") >>
SteelP110 == << KV("materialName", "Steel"), KV("grade", "P110") >>
ComponentOf(reference) ==
    << KV("componentType", "Casing"), KV("topDepth", 0), KV("bottomDepth", 500) >>
    \o reference

MaterialSchematics ==
    << << << KV("materials", << SteelWithId, Alloy >>),
             KV("assemblies",
                << Assembly("Surface", << >>,
                      << ComponentOf(<< KV("materialId", "steel1"),
                                        KV("materialName", "Alloy"),
                                        KV("grade", "P110") >>),
                         ComponentOf(<< KV("materialName", "Alloy"),
                                        KV("grade", "L80") >>) >>),
                   Assembly("Production", << >>,
                      << ComponentOf(<< KV("materialName", "Unknown"),
                                        KV("grade", "P110") >>),
                         ComponentOf(<< KV("grade", "X") >>) >>) >>) >> >>,
       << << KV("materials", << Steel, SteelP110 >>),
             KV("assemblies",
                << Assembly("Surface", << >>,
                      << ComponentOf(<< KV("grade", "X") >>),
                         ComponentOf(<< KV("materialName", "Steel") >>) >>) >>) >> >>,
       << << KV("assemblies",
                << Assembly("Surface", << >>,
                      << ComponentOf(<< KV("materialName", "Steel"),
                                        KV("grade", "L80") >>) >>) >>) >> >> >>

CasingSchematics == BasicSchematics \o MaterialSchematics

\* datum sections; the first is "no datum key"
Datums ==
    << << >>,
       << << KV("datumName", "RKB"), KV("datumElevation", 30) >> >>,
       << << KV("datumId", "datum1"), KV("datumName", "RKB"), KV("datumElevation", 30) >> >> >>

Section(key, section) == IF Len(section) = 0 THEN << >> ELSE << KV(key, section[1]) >>

\* the payload with the n[1]-th project info, the n[2]-th formation inputs,
\* the n[3]-th casing schematics and the n[4]-th datum
PayloadOf(n) ==
    << KV("projectInfo", ProjectInfos[n[1]]) >>
    \o Section("formationInputs", FormationInputs[n[2]])
    \o Section("casingSchematics", CasingSchematics[n[3]])
    \o Section("datum", Datums[n[4]])

\* one section varied at a time around a full payload, and the payloads
\* without a well or wellbore combined with every casing section
PayloadNumbers ==
    ((1..Len(ProjectInfos)) \X { 11 } \X { 2 } \X { 2 })
    \cup ({ 1 } \X (1..Len(FormationInputs)) \X { 1, 2 } \X { 1 })
    \cup ({ 1, 5, 6 } \X { 1 } \X (1..Len(BasicSchematics)) \X { 1 })
    \cup ({ 1, 6 } \X { 1, 3 } \X { 1 } \X (1..Len(Datums)))

\* the payloads of two clients that name their own well and wellbore
ClientPayloadNumbers == { << 2, 2, 2, 1 >>, << 9, 3, 1, 1 >> }

OldScenario(id) == Elem("CD_SCENARIO", << KV("SCENARIO_ID", id), KV("NAME", "Old") >>)
OldWell == Elem("CD_WELL", << KV("WELL_ID", "oldwell"), KV("SITE_ID", "oldsite") >>)
OldCase == Elem("CD_CASE", << KV("CASE_ID", "oldcase"), KV("SCENARIO_ID", "old1") >>)

\* base templates: an export root, a root element wrapping the export
\* element, an export root with nothing in it, a root with no export element
Templates ==
    << Tree("export", EmptyDict, << CD_POLICY, OldWell, OldScenario("old1"), OldCase >>),
       Tree("root", EmptyDict,
            << Tree("export", EmptyDict,
                    << TOPLEVEL, OldScenario("old1"), OldScenario("old2") >>) >>),
       Tree("export", EmptyDict, << >>),
       Tree("data", EmptyDict, << Elem("header", EmptyDict) >>) >>

\* a template that holds elements of every section, some of them twice,
\* between elements of no section, and a site below TOPLEVEL; one with
\* the always-purged elements only; and one that is an exported design
Old(tag, n) == Elem(tag, << KV("NAME", "Old"), KV("SEQUENCE_NO", ToString(n)) >>)

\* an exported design whose elements name each other: a site, a well, a
\* wellbore and a scenario, and a DLS group, a datum and an assembly that
\* refer to them; the assembly has an ID that an earlier generation drew
OldDesign ==
    << Elem("CD_SITE", << KV("SITE_ID", "oldsite"), KV("SITE_NAME", "Old") >>),
       Elem("CD_WELL", << KV("WELL_ID", "oldwell"), KV("SITE_ID", "oldsite") >>),
       Elem("CD_WELLBORE", << KV("WELL_ID", "oldwell"), KV("WELLBORE_ID", "oldbore") >>),
       Elem("CD_SCENARIO", << KV("WELL_ID", "oldwell"), KV("WELLBORE_ID", "oldbore"),
                              KV("SCENARIO_ID", "old1"), KV("DATUM_ID", "olddatum") >>),
       Elem("TU_DLS_OVERRIDE_GROUP",
            << KV("WELL_ID", "oldwell"), KV("WELLBORE_ID", "oldbore"),
               KV("SCENARIO_ID", "old1"), KV("DLS_OVERRIDE_GROUP_ID", "olddls") >>),
       Elem("CD_DATUM", << KV("WELL_ID", "oldwell"), KV("DATUM_ID", "olddatum") >>),
       Elem("CD_ASSEMBLY", << KV("WELL_ID", "oldwell"), KV("WELLBORE_ID", "oldbore"),
                              KV("ASSEMBLY_ID", IdOf(1)) >>) >>

PurgeTemplates ==
    << Tree("export", EmptyDict,
            << Tree("TOPLEVEL", EmptyDict, << Old("CD_SITE", 0) >>),
               Old("CD_SITE", 1), Old("CD_WELL", 2), CD_POLICY, Old("CD_WELLBORE", 3),
               Old("CD_SCENARIO", 4), Old("CD_TEMP_GRADIENT_GROUP", 5),
               Old("CD_TEMP_GRADIENT", 6), Old("CD_UNIT", 7), Old("CD_TEMP_GRADIENT", 8),
               Old("CD_TEMPERATURE", 9), Old("CD_PORE_PRESSURE_GROUP", 10),
               Old("CD_PORE_PRESSURE", 11), Old("CD_FRAC_GRADIENT_GROUP", 12),
               Old("CD_FRAC_GRADIENT", 13), Old("CD_FRAC_PRESSURE", 14),
               Old("CD_HYDROSTATIC_PRESSURE", 15), Old("TU_DLS_OVERRIDE_GROUP", 16),
               Old("TU_DLS_OVERRIDE", 17), Old("CD_DEFINITIVE_SURVEY_HEADER", 18),
               Old("CD_DEFINITIVE_SURVEY_STATION", 19), Old("CD_UNIT", 20),
               Old("CD_DEFINITIVE_SURVEY_STATION", 21), Old("CD_MATERIAL", 22),
               Old("CD_ASSEMBLY", 23), Old("CD_ASSEMBLY_COMP", 24), Old("CD_CASE", 25),
               Old("CD_WEQP_PACKER", 26), Old("BINARY_DATA", 27), Old("CD_DATUM", 28),
               Old("CD_SCENARIO", 29), Old("CD_ATTACHMENT", 30) >>),
       Tree("data", EmptyDict,
            << Elem("header", EmptyDict),
               Tree("export", EmptyDict,
                    << Old("CD_CASE", 1), Old("CD_UNIT", 2), Old("BINARY_DATA", 3),
                       Old("CD_WEQP_PACKER", 4), Old("CD_SCENARIO", 5) >>) >>),
       Tree("export", EmptyDict, OldDesign) >>

\* payloads whose entities bring their own IDs, all, none or some of them
Ids(key, id) == IF id = "" THEN << >> ELSE << KV(key, id) >>

IdProjectInfo(site, well, bore) ==
    << KV("site", Ids("siteId", site) \o SiteNoId),
       KV("well", Ids("wellId", well) \o WellNoId),
       KV("wellbore", Ids("wellboreId", bore) \o WellboreNoId) >>

IdOverride(id) ==
    Ids("overrideId", id)
    \o << KV("topDepth", 0), KV("baseDepth", 500), KV("doglegSeverity", 3) >>

IdStation(id, md) ==
    Ids("stationId", id) \o << KV("azimuth", 0), KV("inclination", 0), KV("md", md) >>

IdFormation(group, ov1, ov2, header, st1, st2) ==
    << KV("dlsOverrideGroup",
          Ids("groupId", group) \o << KV("overrides", << IdOverride(ov1), IdOverride(ov2) >>) >>),
       KV("surveyHeader",
          Ids("headerId", header)
          \o << KV("name", "Plan"),
                KV("stations", << IdStation(st1, 0), IdStation(st2, 500) >>) >>) >>

IdCasing(mat1, mat2, asm1, asm2, cmp1, cmp2, cmp3) ==
    << KV("materials", << Ids("materialId", mat1) \o Steel, Ids("materialId", mat2) \o Alloy >>),
       KV("assemblies",
          << Assembly("Surface", Ids("assemblyId", asm1),
                      << Ids("componentId", cmp1) \o Pipe, Ids("componentId", cmp2) \o Pipe >>),
             Assembly("Production", Ids("assemblyId", asm2),
                      << Ids("componentId", cmp3) \o Pipe >>) >>) >>

IdDatum(id) ==
    Ids("datumId", id) \o << KV("datumName", "RKB"), KV("datumElevation", 30) >>

IdPayloads ==
    << << KV("projectInfo", IdProjectInfo("site7", "well7", "bore7")),
          KV("formationInputs", IdFormation("grp7", "ov7", "ov8", "hdr7", "st7", "st8")),
          KV("casingSchematics", IdCasing("mat7", "mat8", "asm7", "asm8", "cmp7", "cmp8", "cmp9")),
          KV("datum", IdDatum("dat7")) >>,
       << KV("projectInfo", IdProjectInfo("", "", "")),
          KV("formationInputs", IdFormation("", "", "", "", "", "")),
          KV("casingSchematics", IdCasing("", "", "", "", "", "", "")),
          KV("datum", IdDatum("")) >>,
       << KV("projectInfo", IdProjectInfo("site7", "", "bore7")),
          KV("formationInputs", IdFormation("", "ov7", "", "hdr7", "", "st8")),
          KV("casingSchematics", IdCasing("", "mat8", "asm7", "", "", "cmp8", "")),
          KV("datum", IdDatum("")) >>,
       << KV("projectInfo", IdProjectInfo("", "well7", "")),
          KV("formationInputs", IdFormation("grp7", "", "ov8", "", "st7", "")),
          KV("casingSchematics", IdCasing("mat7", "", "", "asm8", "cmp7", "", "cmp9")),
          KV("datum", IdDatum("dat7")) >>,
       << KV("projectInfo", << KV("site", SiteNoId) >>),
          KV("formationInputs", IdFormation("", "ov7", "", "", "st7", "")),
          KV("casingSchematics", IdCasing("mat7", "", "", "asm8", "", "cmp8", "")),
          KV("datum", IdDatum("")) >>,
       << KV("projectInfo", IdProjectInfo("", "", "")),
          KV("datum", IdDatum("dat7")) >> >>

\* binary_data_library.xml: absent, or one journal with one attachment
Libraries ==
    << NoLibrary,
       [exists |-> TRUE,
        data |-> Tree("BINARY_DATA", EmptyDict,
           << Tree("CD_ATTACHMENT_JOURNAL",
                   << KV("attachment_id", "libatt"),
                      KV("attachment_journal_id", "libjournal"),
                      KV("attachment_locator",
                         << KV("policy_id", "libpolicy"), KV("well_id", "libwell") >>),
                      KV("attachment_name", "schematic") >>,
                   << Tree("CD_ATTACHMENT", << KV("attachment_id", "libatt") >>, << >>) >>)
           >>)] >>

(***************************************************************************)
(* The class XMLGenerator (services/xml_generator.py): the generator the   *)
(* controller creates once and calls for every request                     *)
(* (controllers/xml_controller.py 17 and 109).  Its methods keep their     *)
(* names, with the leading underscore.                                     *)
(***************************************************************************)
\* xml_generator.py 47: root.find(".//export"), the export elements below
\* the root (the root itself is not searched; the templates hold none deeper
\* than the root's children)
ExportBelow(template) == FindAll(template.children, "export")

\* XMLGenerator._add_creation_info: six element.set calls
_add_creation_info(e) ==
    SetEach(e, << KV("CREATE_DATE", format_timestamp(NowStr)),
                  KV("UPDATE_DATE", format_timestamp(NowStr)),
                  KV("CREATE_USER_ID", "API_USER"),
                  KV("UPDATE_USER_ID", "API_USER"),
                  KV("CREATE_APP_ID", "XML_API"),
                  KV("UPDATE_APP_ID", "XML_API") >>)

\* XMLGenerator._get_parent_id: the parent of the first relationship, in the
\* order of the dict, that holds the child; None when there is none
_get_parent_id(reg, parent_type, child_type, child_id) ==
    LET hits == { i \in 1..Len(reg.relationship_map) :
                    /\ reg.relationship_map[i].k[1] = parent_type
                    /\ reg.relationship_map[i].k[3] = child_type
                    /\ child_id \in SeqToSet(reg.relationship_map[i].v) }
    IN  IF hits = {} THEN None
        ELSE reg.relationship_map[CHOOSE i \in hits : \A j \in hits : i <= j].k[2]

\* xml_generator.py 222-230: the group linked to the wellbore
_DlsLinked(e, wellbore) ==
    IF Truthy(wellbore) /\ HasId(wellbore, "wellboreId")
    THEN [reg |-> register_relationship(e.reg, "WELLBORE",
                     DictGet(wellbore, "wellboreId", None),
                     "DLS_OVERRIDE_GROUP", DictGet(e.d, "groupId", None)),
          rng |-> e.rng,
          d   |-> DictSet(e.d, "wellboreId", DictGet(wellbore, "wellboreId", None))]
    ELSE e

\* xml_generator.py 213-244: the DLS override group
_PrepDls(reg, rng, dls_group, wellbore) ==
    IF ~ Truthy(dls_group) THEN [reg |-> reg, rng |-> rng, d |-> dls_group]
    ELSE CHOOSE r \in
           { DlsRows(e2) : e2 \in
           { _DlsLinked(e1, wellbore) : e1 \in
           { EnsureId(reg, rng, dls_group, "groupId", "DLS_OVERRIDE_GROUP") } } } : TRUE

_PrepareDls(st) ==
    Stored(_PrepDls(st.reg, st.rng,
                    DictGet(DictGet(st.payload, "formationInputs", EmptyDict),
                            "dlsOverrideGroup", EmptyDict),
                    ProjectPart(st.payload, "wellbore")),
           st.payload, "formationInputs", "dlsOverrideGroup")

\* xml_generator.py 315-322: the relationship to the wellbore the assembly
\* names itself
_AssemblyLinked(e, wellbore) ==
    IF Truthy(wellbore) /\ HasId(e.d, "wellboreId") /\ HasId(e.d, "assemblyId")
    THEN [reg |-> register_relationship(e.reg, "WELLBORE",
                     DictGet(e.d, "wellboreId", None),
                     "ASSEMBLY", DictGet(e.d, "assemblyId", None)),
          rng |-> e.rng, d |-> e.d]
    ELSE e

\* xml_generator.py 307-348: the assemblies and their components
RECURSIVE _PrepAssemblies(_, _, _, _, _)
_PrepAssemblies(reg, rng, assemblies, i, wellbore) ==
    IF i > Len(assemblies) THEN [reg |-> reg, rng |-> rng, rows |-> assemblies]
    ELSE CHOOSE r \in
           { _PrepAssemblies(a3.reg, a3.rng, [assemblies EXCEPT ![i] = a3.d], i + 1,
                             wellbore) : a3 \in
           { AssemblyComponents(a2) : a2 \in
           { _AssemblyLinked(a1, wellbore) : a1 \in
           { EnsureId(reg, rng, assemblies[i], "assemblyId", "ASSEMBLY") }
           } } } : TRUE

_PrepareAssemblies(st) ==
    StoredRows(_PrepAssemblies(st.reg, st.rng,
                  DictGet(DictGet(st.payload, "casingSchematics", EmptyDict),
                          "assemblies", << >>), 1,
                  ProjectPart(st.payload, "wellbore")),
               st.payload, "casingSchematics", "assemblies")

\* XMLGenerator._prepare_ids: the statements of prepare_ids without the new
\* registry, the scenario, the formation groups and the cases; the IDs go
\* into the registry the generator holds
_prepare_ids(reg, rng0, payload) ==
    CHOOSE st \in
      { _PrepareAssemblies(s7) : s7 \in
      { PrepareMaterials(s6) : s6 \in
      { PrepareDatum(s5) : s5 \in
      { PrepareSurvey(s4) : s4 \in
      { _PrepareDls(s3) : s3 \in
      { PrepareWellbore(s2) : s2 \in
      { PrepareWell(s1) : s1 \in
      { PrepareSite(s0) : s0 \in
      { [reg |-> reg, rng |-> rng0, payload |-> payload] }
      } } } } } } } } : TRUE

\* XMLGenerator._clear_template_elements
_clear_template_elements(export, p) == RemoveTags(export, ClearedTags(p))

\* the value the last item of items under key holds
LastOf(items, key) ==
    items[CHOOSE i \in DictIndex(items, key) : \A j \in DictIndex(items, key) : j <= i].v

\* the places of the items whose key attrs does not hold and no item before
\* them has
NewPlaces(attrs, items) ==
    SelectSeq([i \in 1..Len(items) |-> i],
              LAMBDA i : /\ ~ DictHas(attrs, items[i].k)
                         /\ \A j \in 1..(i - 1) : items[j].k # items[i].k)

\* "for key, value in items: element.set(key, value)": an attribute the
\* element has keeps its place and takes the last value set, the others
\* follow in the order they were first set
ItemsSet(attrs, items) ==
    [i \in 1..Len(attrs) |->
        IF DictHas(items, attrs[i].k)
        THEN KV(attrs[i].k, LastOf(items, attrs[i].k)) ELSE attrs[i]]
    \o [n \in 1..Len(NewPlaces(attrs, items)) |->
          KV(items[NewPlaces(attrs, items)[n]].k,
             LastOf(items, items[NewPlaces(attrs, items)[n]].k))]

\* xml_generator.py 366-371, 381-388, 398-405: element.set for every item of
\* the dict, the ID keys under the attribute names the code spells out
_SetItems(d, id_keys) ==
    ItemsSet(EmptyDict,
       [i \in 1..Len(d) |->
           IF DictHas(id_keys, d[i].k)
           THEN KV(DictGet(id_keys, d[i].k, None), d[i].v)
           ELSE KV(convert_camel_to_xml_key(d[i].k), Str(d[i].k, d[i].v))])

\* "for key, value in d.items(): if key not in skip:
\*      element.set(convert_camel_to_xml_key(key), str(value))"
_CopyItems(attrs, d, skip) ==
    ItemsSet(attrs,
       [i \in 1..Len(SelectSeq(d, LAMBDA item : item.k \notin skip)) |->
           KV(convert_camel_to_xml_key(
                 SelectSeq(d, LAMBDA item : item.k \notin skip)[i].k),
              Str(SelectSeq(d, LAMBDA item : item.k \notin skip)[i].k,
                  SelectSeq(d, LAMBDA item : item.k \notin skip)[i].v))])

\* ET.SubElement(export_elem, tag), its attributes set one by one, then
\* _add_creation_info
_NewSet(tag, attrs) == _add_creation_info(Elem(tag, attrs))

\* XMLGenerator._update_project_info
_update_project_info(export, project_info) ==
    IF ~ Truthy(project_info) THEN export
    ELSE LET e1 == IF DictHas(project_info, "site")
                   THEN Append(export, _NewSet("CD_SITE",
                           _SetItems(DictGet(project_info, "site", EmptyDict),
                                     << KV("siteId", "SITE_ID") >>)))
                   ELSE export
             e2 == IF DictHas(project_info, "well")
                   THEN Append(e1, _NewSet("CD_WELL",
                           _SetItems(DictGet(project_info, "well", EmptyDict),
                                     << KV("wellId", "WELL_ID"), KV("siteId", "SITE_ID") >>)))
                   ELSE e1
             e3 == IF DictHas(project_info, "wellbore")
                   THEN Append(e2, _NewSet("CD_WELLBORE",
                           _SetItems(DictGet(project_info, "wellbore", EmptyDict),
                                     << KV("wellboreId", "WELLBORE_ID"),
                                        KV("wellId", "WELL_ID") >>)))
                   ELSE e2
         IN  e3

\* "for wellbore_id in id_map.get('WELLBORE', []): e.set('WELLBORE_ID',
\* wellbore_id); e.set('WELL_ID', _get_parent_id('WELL', 'WELLBORE',
\* wellbore_id)); break": the first wellbore of the registry and its well
_SetFirstWellbore(attrs, reg) ==
    IF Truthy(IdsOf(reg, "WELLBORE"))
    THEN DictSet(DictSet(attrs, "WELLBORE_ID", IdsOf(reg, "WELLBORE")[1]),
                 "WELL_ID",
                 _get_parent_id(reg, "WELL", "WELLBORE", IdsOf(reg, "WELLBORE")[1]))
    ELSE attrs

\* element.set(key, None) raises TypeError (lxml): the first wellbore of the
\* registry has no well
NoWellOfFirstWellbore(reg) ==
    /\ Truthy(IdsOf(reg, "WELLBORE"))
    /\ _get_parent_id(reg, "WELL", "WELLBORE", IdsOf(reg, "WELLBORE")[1]) = None

\* what a handler that draws IDs leaves: the registry, the random position,
\* the children of the export element, and whether it raised
Left(reg, rng, export, raised) ==
    [reg |-> reg, rng |-> rng, export |-> export, raised |-> raised]

\* xml_generator.py 448-460: one CD_TEMP_GRADIENT for every profile below
\* the surface
RECURSIVE _TempPoints(_, _, _, _, _, _)
_TempPoints(reg, rng, export, profiles, i, temp_group_id) ==
    IF i > Len(profiles) THEN Left(reg, rng, export, FALSE)
    ELSE IF DictGet(profiles[i], "depth", 0) > 0
         THEN CHOOSE r \in
                { _TempPoints(g.reg, g.rng,
                     Append(export, Elem("CD_TEMP_GRADIENT",
                        _SetFirstWellbore(
                           << KV("TEMP_GRADIENT_GROUP_ID", temp_group_id),
                              KV("TEMP_GRADIENT_ID", g.id),
                              KV("TEMPERATURE",
                                 StrFloat(DictGet(profiles[i], "temperature", 0))),
                              KV("TVD", StrFloat(DictGet(profiles[i], "depth", 0))) >>,
                           g.reg))),
                     profiles, i + 1, temp_group_id) : g \in
                { generate_id(reg, rng, "TEMP_GRADIENT") } } : TRUE
         ELSE _TempPoints(reg, rng, export, profiles, i + 1, temp_group_id)

\* xml_generator.py 424-460, g being the group ID generated at line 425
_TemperatureGroup(g, export, profiles) ==
    IF NoWellOfFirstWellbore(g.reg) THEN Left(g.reg, g.rng, export, TRUE)
    ELSE _TempPoints(g.reg, g.rng,
            Append(export, _NewSet("CD_TEMP_GRADIENT_GROUP",
               SurfaceTemp(_SetFirstWellbore(
                              << KV("TEMP_GRADIENT_GROUP_ID", g.id),
                                 KV("NAME", "Geothermal Gradient"),
                                 KV("PHASE", "PROTOTYPE") >>, g.reg),
                           profiles, 1))),
            profiles, 1, g.id)

\* xml_generator.py 421-460
_UpdateTemperature(reg, rng, export, formation_inputs) ==
    IF ~ DictHas(formation_inputs, "temperatureProfiles")
    THEN Left(reg, rng, export, FALSE)
    ELSE CHOOSE r \in
           { _TemperatureGroup(g, export,
                DictGet(formation_inputs, "temperatureProfiles", << >>)) : g \in
           { generate_id(reg, rng, "TEMP_GRADIENT_GROUP") } } : TRUE

\* xml_generator.py 495-515 and 535-554: the points of one pressure group
RECURSIVE _PressurePoints(_, _, _, _, _, _, _)
_PressurePoints(reg, rng, export, pressures, i, group_id, kind) ==
    IF i > Len(pressures) THEN Left(reg, rng, export, FALSE)
    ELSE CHOOSE r \in
           { _PressurePoints(g.reg, g.rng,
                Append(export, Elem(kind.point_tag,
                   _SetFirstWellbore(
                      DictSet(
                         (<< KV(kind.group_key, group_id),
                             KV(kind.point_key, g.id),
                             KV(kind.pressure_key,
                                StrFloat(DictGet(pressures[i], "pressure", 0))),
                             KV("TVD", StrFloat(DictGet(pressures[i], "depth", 0))) >>
                          \o (IF kind.permeable
                              THEN << KV("IS_PERMEABLE_ZONE", "Y") >> ELSE << >>)),
                         kind.emw_key,
                         IF DictHas(pressures[i], "emw")
                         THEN StrFloat(DictGet(pressures[i], "emw", 0))
                         ELSE EmwStr(DictGet(pressures[i], "pressure", 0),
                                     DictGet(pressures[i], "depth", 0))),
                      g.reg))),
                pressures, i + 1, group_id, kind) : g \in
           { generate_id(reg, rng, kind.point_type) } } : TRUE

\* xml_generator.py 479-515 and 519-554, g being the group ID generated at
\* line 480 or 520
_PressureGroupOf(g, export, pressures, kind) ==
    IF NoWellOfFirstWellbore(g.reg) THEN Left(g.reg, g.rng, export, TRUE)
    ELSE _PressurePoints(g.reg, g.rng,
            Append(export, _NewSet(kind.group_tag,
               _SetFirstWellbore(<< KV(kind.group_key, g.id), KV("NAME", kind.name),
                                    KV("PHASE", "PROTOTYPE") >>, g.reg))),
            pressures, 1, g.id, kind)

\* xml_generator.py 478-515 (pore) and 518-554 (frac), t being what the
\* statements before have left
_PressureGroup(t, pressures, kind) ==
    IF t.raised \/ ~ Truthy(pressures) THEN t
    ELSE CHOOSE r \in
           { _PressureGroupOf(g, t.export, pressures, kind) : g \in
           { generate_id(t.reg, t.rng, kind.group_type) } } : TRUE

\* XMLGenerator._update_formation_inputs
_update_formation_inputs(reg, rng, export, formation_inputs) ==
    IF ~ Truthy(formation_inputs) THEN Left(reg, rng, export, FALSE)
    ELSE IF ~ DictHas(formation_inputs, "pressureProfiles")
    THEN _UpdateTemperature(reg, rng, export, formation_inputs)
    ELSE CHOOSE r \in
           { _PressureGroup(p,
                OfType(DictGet(formation_inputs, "pressureProfiles", << >>), "Frac"),
                FracKind) : p \in
           { _PressureGroup(t,
                OfType(DictGet(formation_inputs, "pressureProfiles", << >>), "Pore"),
                PoreKind) : t \in
           { _UpdateTemperature(reg, rng, export, formation_inputs) } } } : TRUE

\* "if 'wellboreId' in d: e.set('WELLBORE_ID', d['wellboreId']);
\*  well_id = _get_parent_id('WELL', 'WELLBORE', d['wellboreId']);
\*  if well_id: e.set('WELL_ID', well_id)"
_SetOwnWellbore(attrs, reg, d) ==
    IF DictHas(d, "wellboreId")
    THEN IF IsFalsyStr(_get_parent_id(reg, "WELL", "WELLBORE",
                                      DictGet(d, "wellboreId", None)))
         THEN DictSet(attrs, "WELLBORE_ID", DictGet(d, "wellboreId", None))
         ELSE DictSet(DictSet(attrs, "WELLBORE_ID", DictGet(d, "wellboreId", None)),
                      "WELL_ID",
                      _get_parent_id(reg, "WELL", "WELLBORE",
                                     DictGet(d, "wellboreId", None)))
    ELSE attrs

\* xml_generator.py 589-615
RECURSIVE _DlsOverrides(_, _, _, _, _)
_DlsOverrides(reg, export, dls_override_group, overrides, i) ==
    IF i > Len(overrides) THEN export
    ELSE LET a1 == SetIfHas(EmptyDict, overrides[i], "overrideId", "DLS_OVERRIDE_ID")
             a2 == DictSet(a1, "DLS_OVERRIDE_GROUP_ID",
                           DictGet(dls_override_group, "groupId", ""))
             a3 == SetIfHas(_SetOwnWellbore(a2, reg, dls_override_group),
                            dls_override_group, "scenarioId", "SCENARIO_ID")
             a4 == SetIfHas(SetIfHas(SetIfHas(a3, overrides[i], "topDepth", "MD_TOP"),
                                     overrides[i], "baseDepth", "MD_BASE"),
                            overrides[i], "doglegSeverity", "DOGLEG_SEVERITY")
         IN  CHOOSE r \in
               { _DlsOverrides(reg, e, dls_override_group, overrides, i + 1) : e \in
               { Append(export, _NewSet("TU_DLS_OVERRIDE", a4)) } } : TRUE

\* XMLGenerator._update_dls_overrides
_update_dls_overrides(reg, export, dls_override_group) ==
    IF ~ Truthy(dls_override_group) THEN export
    ELSE LET a1 == SetIfHas(EmptyDict, dls_override_group, "groupId",
                            "DLS_OVERRIDE_GROUP_ID")
             a2 == SetIfHas(_SetOwnWellbore(a1, reg, dls_override_group),
                            dls_override_group, "scenarioId", "SCENARIO_ID")
         IN  _DlsOverrides(reg, Append(export, _NewSet("TU_DLS_OVERRIDE_GROUP", a2)),
                           dls_override_group,
                           DictGet(dls_override_group, "overrides", << >>), 1)

\* XMLGenerator._update_survey_header (the stations as in survey.py)
_update_survey_header(reg, export, survey_header) ==
    IF ~ Truthy(survey_header) THEN export
    ELSE LET a1 == SetIfHas(EmptyDict, survey_header, "headerId", "DEF_SURVEY_HEADER_ID")
             a2 == _SetOwnWellbore(a1, reg, survey_header)
             a3 == _CopyItems(a2, survey_header, { "headerId", "wellboreId", "stations" })
         IN  SurveyStations(Append(export, _NewSet("CD_DEFINITIVE_SURVEY_HEADER", a3)),
                            survey_header, DictGet(survey_header, "stations", << >>), 1)

\* xml_generator.py 680-694
RECURSIVE _CasingMaterials(_, _, _)
_CasingMaterials(export, materials, i) ==
    IF i > Len(materials) THEN export
    ELSE CHOOSE r \in
           { _CasingMaterials(e, materials, i + 1) : e \in
           { Append(export, _NewSet("CD_MATERIAL",
               _CopyItems(SetIfHas(EmptyDict, materials[i], "materialId", "MATERIAL_ID"),
                          materials[i], { "materialId" }))) } } : TRUE

\* xml_generator.py 763-777: the attribute a component item is written to
ComponentKey(key) ==
    CASE key = "outerDiameter" -> "OD_BODY"
      [] key = "innerDiameter" -> "ID_BODY"
      [] key = "topDepth"      -> "MD_TOP"
      [] key = "bottomDepth"   -> "MD_BASE"
      [] key = "axialStrength" -> "AXIAL_RATING"
      [] key = "weight"        -> "APPROXIMATE_WEIGHT"
      [] OTHER                 -> convert_camel_to_xml_key(key)

\* the items of a component but its IDs and its type
OwnItems(component) ==
    SelectSeq(component,
              LAMBDA item : item.k \notin { "componentId", "assemblyId", "wellboreId",
                                            "componentType" })

\* xml_generator.py 760-777
_ComponentItems(attrs, component) ==
    ItemsSet(attrs,
       [i \in 1..Len(OwnItems(component)) |->
           KV(ComponentKey(OwnItems(component)[i].k),
              Str(OwnItems(component)[i].k, OwnItems(component)[i].v))])

\* xml_generator.py 733-783: the components of one assembly, assembly_elem
\* being the element of the assembly
RECURSIVE _CasingComponents(_, _, _, _, _)
_CasingComponents(export, assembly, assembly_elem, components, n) ==
    IF n > Len(components) THEN export
    ELSE LET a1 == SetIfHas(EmptyDict, components[n], "componentId", "ASSEMBLY_COMP_ID")
             a2 == SetIfHas(SetIfHas(a1, assembly, "assemblyId", "ASSEMBLY_ID"),
                            assembly, "wellboreId", "WELLBORE_ID")
             a3 == IF ElemHas(assembly_elem, "WELL_ID")
                   THEN DictSet(a2, "WELL_ID", ElemGet(assembly_elem, "WELL_ID"))
                   ELSE a2
             a4 == _ComponentItems(ComponentTypeCodes(a3, components[n]),
                                   components[n])
             a5 == DictSet(a4, "SEQUENCE_NO", StrFloat(n - 1))
         IN  CHOOSE r \in
               { _CasingComponents(e, assembly, assembly_elem, components, n + 1) : e \in
               { Append(export, _NewSet("CD_ASSEMBLY_COMP", a5)) } } : TRUE

\* xml_generator.py 700-729: the element of one assembly
_AssemblyElem(reg, assembly) ==
    LET a1 == SetIfHas(EmptyDict, assembly, "assemblyId", "ASSEMBLY_ID")
        a2 == _SetOwnWellbore(a1, reg, assembly)
        a3 == _CopyItems(a2, assembly, { "assemblyId", "wellboreId", "components" })
        a4 == IF DictHas(assembly, "topDepth")
              THEN DictSet(DictSet(a3, "MD_ASSEMBLY_TOP",
                                   StrFloat(DictGet(assembly, "topDepth", 0))),
                           "MD_TOC", StrFloat(DictGet(assembly, "topDepth", 0)))
              ELSE a3
        a5 == SetIfHas(a4, assembly, "baseDepth", "MD_ASSEMBLY_BASE")
    IN  ElemSet(_NewSet("CD_ASSEMBLY", a5), "IS_TOP_DOWN", "Y")

\* xml_generator.py 698-783
RECURSIVE _CasingAssemblies(_, _, _, _)
_CasingAssemblies(reg, export, assemblies, i) ==
    IF i > Len(assemblies) THEN export
    ELSE CHOOSE r \in
           { _CasingAssemblies(reg, e, assemblies, i + 1) : e \in
           UNION { { _CasingComponents(with_assembly, assemblies[i], assembly_elem,
                        DictGet(assemblies[i], "components", << >>), 1) :
                     with_assembly \in { Append(export, assembly_elem) } } :
                   assembly_elem \in { _AssemblyElem(reg, assemblies[i]) } } } : TRUE

\* XMLGenerator._update_casing_schematics
_update_casing_schematics(reg, export, casing_schematics) ==
    IF ~ Truthy(casing_schematics) THEN export
    ELSE _CasingAssemblies(reg,
            _CasingMaterials(export, DictGet(casing_schematics, "materials", << >>), 1),
            DictGet(casing_schematics, "assemblies", << >>), 1)

\* XMLGenerator._update_datum
_update_datum(export, datum) ==
    IF ~ Truthy(datum) THEN export
    ELSE Append(export, _NewSet("CD_DATUM",
            _CopyItems(SetIfHas(SetIfHas(EmptyDict, datum, "datumId", "DATUM_ID"),
                                datum, "wellId", "WELL_ID"),
                       datum, { "datumId", "wellId" })))

(***************************************************************************)
(* The template editor (services/xml): XMLTemplateEditor.update_from_payload *)
(* and its section handlers.  They work on self.root; the templates of the *)
(* model hold their entity elements as children of the root, so root below *)
(* is the list of the root's children and the parent of every element the  *)
(* XPath expressions find.                                                 *)
(***************************************************************************)
\* the payload fields fields.Float of models/schemas.py loads, those of
\* NumericKeys and the ones only the editor reads
EditNumericKeys ==
    NumericKeys \cup
    { "tvd", "tocDepth", "mudDensityShoe", "pressureBurst", "pressureCollapse",
      "packerDepth", "plugDepth", "jointStrength", "poissonsRatio",
      "ultimateTensileStrength", "thermalExpansionCoef", "youngsModulus",
      "wallThicknessPercent" }

\* str(d.get(key, default)), default given as the string str() makes of it
StrGet(d, key, default) ==
    IF DictHas(d, key)
    THEN (IF key \in EditNumericKeys THEN StrFloat(DictGet(d, key, 0))
          ELSE DictGet(d, key, None))
    ELSE default

\* the place row i takes in sorted(rows, key=lambda x: x.get(key, 0),
\* reverse=True): behind every row with a greater key, and behind the rows
\* with an equal key that stand before it in rows (the sort is stable)
RankDesc(rows, key, i) ==
    Cardinality({ j \in 1..Len(rows) :
                    \/ DictGet(rows[j], key, 0) > DictGet(rows[i], key, 0)
                    \/ /\ DictGet(rows[j], key, 0) = DictGet(rows[i], key, 0)
                       /\ j < i }) + 1

\* profile_handlers.py 57, 115-116, dls_handlers.py 47, survey_handlers.py 54
SortedDesc(rows, key) ==
    [p \in 1..Len(rows) |->
        rows[CHOOSE i \in 1..Len(rows) : RankDesc(rows, key, i) = p]]

\* the elements .//TAG[@attr='value'] finds
Matches(e, tag, attr, value) == e.tag = tag /\ ElemGet(e, attr) = value

\* element_operations.py remove_existing_elements, for .//TAG[@attr='value']
remove_existing_elements(root, tag, attr, value) ==
    SelectSeq(root, LAMBDA e : ~ Matches(e, tag, attr, value))

\* element_operations.py find_group_element: the index of the first element
\* .//TAG[@attr='value'] in its parent, counted from 0, or -1 when the XPath
\* finds nothing (the function returns None)
find_group_element(root, tag, attr, value) ==
    IF \E i \in 1..Len(root) : Matches(root[i], tag, attr, value)
    THEN (CHOOSE i \in 1..Len(root) :
             /\ Matches(root[i], tag, attr, value)
             /\ \A j \in 1..(i - 1) : ~ Matches(root[j], tag, attr, value)) - 1
    ELSE -1

\* parent_elem.insert(index, element): before the child at index, at the end
\* when index is not below the number of children
Insert(root, index, element) ==
    IF index >= Len(root) THEN Append(root, element)
    ELSE SubSeq(root, 1, index) \o << element >> \o SubSeq(root, index + 1, Len(root))

\* services/xml/utils.py generate_random_id: a draw of the random stream,
\* checked against nothing
generate_random_id(rng) == [id |-> Candidate(rng), rng |-> (rng + 1) % NumIds]

\* element_operations.py create_element
create_element(tag_name, attributes) == Elem(tag_name, attributes)

\* services/xml/utils.py calculate_emw, and the str() the handlers make of
\* it (profile_handlers.py 173-188): '0.0' when there is neither an emw in
\* the row nor a depth above 0
EditEmw(profile) ==
    IF DictHas(profile, "emw") THEN StrFloat(DictGet(profile, "emw", 0))
    ELSE IF DictGet(profile, "depth", 0) > 0
    THEN EmwStr(DictGet(profile, "pressure", 0), DictGet(profile, "depth", 0))
    ELSE "0.0"


\* element_operations.py 11-45 update_element_attribute: every element
\* .//TAG[@id_attr='id_value'] takes the attribute and, for an attribute that
\* is no date, the update stamp
update_element_attribute(root, tag_name, id_attr, id_value, attr_name, attr_value) ==
    [i \in 1..Len(root) |->
        IF Matches(root[i], tag_name, id_attr, id_value)
        THEN LET e == ElemSet(root[i], attr_name, attr_value)
             IN  IF attr_name \in { "CREATE_DATE", "UPDATE_DATE" } THEN e
                 ELSE ElemSet(ElemSet(ElemSet(e,
                         "UPDATE_DATE", format_timestamp(NowStr)),
                         "UPDATE_USER_ID", "API_USER"),
                         "UPDATE_APP_ID", "XML_API")
        ELSE root[i]]

\* element_operations.py 63-72 name_attr_map
NameAttr(tag_name) ==
    CASE tag_name = "CD_SITE"     -> "SITE_NAME"
      [] tag_name = "CD_WELL"     -> "WELL_COMMON_NAME"
      [] tag_name = "CD_WELLBORE" -> "WELLBORE_NAME"
      [] tag_name = "CD_DATUM"    -> "DATUM_NAME"
      [] tag_name = "CD_ASSEMBLY" -> "ASSEMBLY_NAME"
      [] tag_name = "CD_CASE"     -> "CASE_NAME"
      [] OTHER                    -> "NAME"

\* element_operations.py 47-77 update_element_name
update_element_name(root, tag_name, id_attr, id_value, name_value) ==
    update_element_attribute(root, tag_name, id_attr, id_value,
                             NameAttr(tag_name), name_value)

\* root.xpath(".//TAG")[0].get(attr), None when there is no such element
FirstGet(root, tag, attr) ==
    IF Truthy(FindAll(root, tag)) THEN ElemGet(FindAll(root, tag)[1], attr) ELSE None

\* element_operations.py 136-194 extract_entity_ids
extract_entity_ids(root) ==
    [site_id  |-> FirstGet(root, "CD_SITE", "SITE_ID"),
     well_id  |-> FirstGet(root, "CD_WELL", "WELL_ID"),
     wellbore_id |-> FirstGet(root, "CD_WELLBORE", "WELLBORE_ID"),
     scenario_id |-> FirstGet(root, "CD_SCENARIO", "SCENARIO_ID"),
     temp_gradient_group_id |-> FirstGet(root, "CD_SCENARIO", "TEMP_GRADIENT_GROUP_ID"),
     pore_pressure_group_id |-> FirstGet(root, "CD_SCENARIO", "PORE_PRESSURE_GROUP_ID"),
     frac_gradient_group_id |-> FirstGet(root, "CD_SCENARIO", "FRAC_GRADIENT_GROUP_ID"),
     survey_header_id |-> FirstGet(root, "CD_SCENARIO", "DEF_SURVEY_HEADER_ID"),
     datum_id |-> FirstGet(root, "CD_SCENARIO", "DATUM_ID"),
     dls_override_group_id |-> FirstGet(root, "TU_DLS_OVERRIDE_GROUP", "DLS_OVERRIDE_GROUP_ID")]

\* an ID the template gave: neither None nor the empty string
Given(id) == ~ IsFalsyStr(id)

\* element_operations.py 206-225: the name of one of site, well, wellbore
EditName(root, project_info, part, name_key, tag, id_attr, id) ==
    IF DictHas(project_info, part) /\ Given(id)
       /\ DictHas(DictGet(project_info, part, EmptyDict), name_key)
    THEN update_element_name(root, tag, id_attr, id,
             DictGet(DictGet(project_info, part, EmptyDict), name_key, None))
    ELSE root

\* element_operations.py 196-230 update_project_info
edit_project_info(root, project_info, entity_ids) ==
    LET r1 == EditName(root, project_info, "site", "siteName",
                       "CD_SITE", "SITE_ID", entity_ids.site_id)
        r2 == EditName(r1, project_info, "well", "wellCommonName",
                       "CD_WELL", "WELL_ID", entity_ids.well_id)
        r3 == EditName(r2, project_info, "wellbore", "wellboreName",
                       "CD_WELLBORE", "WELLBORE_ID", entity_ids.wellbore_id)
    IN  EditName(r3, project_info, "well", "wellCommonName",
                 "CD_SCENARIO", "SCENARIO_ID", entity_ids.scenario_id)

\* an update_datum that writes the name whether or not the payload has one
edit_datum_always(root, datum, entity_ids) ==
    IF ~ Given(entity_ids.datum_id) THEN root
    ELSE update_element_name(root, "CD_DATUM", "DATUM_ID", entity_ids.datum_id,
                             DictGet(datum, "datumName", "None"))

\* element_operations.py 232-250 update_datum
edit_datum(root, datum, entity_ids) ==
    IF ~ Truthy(datum) \/ ~ Given(entity_ids.datum_id) THEN root
    ELSE LET r1 == IF DictHas(datum, "datumName")
                   THEN update_element_name(root, "CD_DATUM", "DATUM_ID",
                            entity_ids.datum_id, DictGet(datum, "datumName", None))
                   ELSE root
         IN  IF DictHas(datum, "datumElevation")
             THEN update_element_attribute(r1, "CD_DATUM", "DATUM_ID",
                      entity_ids.datum_id, "DATUM_ELEVATION",
                      StrFloat(DictGet(datum, "datumElevation", 0)))
             ELSE r1


\* for i, element in enumerate(elements):
\*     parent_elem.insert(group_index + 1 + i, element)
RECURSIVE InsertAll(_, _, _, _)
InsertAll(root, group_index, elements, i) ==
    IF i > Len(elements) THEN root
    ELSE InsertAll(Insert(root, group_index + i, elements[i]),
                   group_index, elements, i + 1)

\* the ID generate_random_id yields at the i-th pass of a loop that began
\* with the random stream at rng
DrawnId(rng, i) == Candidate((rng + i - 1) % NumIds)

\* elements[0].set(key, value) on the elements .//TAG[@attr='value']
SetFirst(root, tag, attr, value, key, new_value) ==
    LET index == find_group_element(root, tag, attr, value)
    IN  IF index < 0 THEN root
        ELSE [root EXCEPT ![index + 1] = ElemSet(@, key, new_value)]

\* profile_handlers.py 33-34: the temperature of the first row at depth 0,
\* as a one-element list, or the empty list (a row without a depth has
\* None there, which equals no number)
SurfaceTemps(temp_profiles) ==
    LET at0 == SelectSeq(temp_profiles, LAMBDA p : DictGet(p, "depth", -1) = 0)
    IN  IF Truthy(at0) THEN << DictGet(at0[1], "temperature", 0) >> ELSE << >>

\* profile_handlers.py 60-75: the element of one temperature row
TempGradient(profile, id, well_id, wellbore_id, temp_group_id) ==
    create_element("CD_TEMP_GRADIENT",
        << KV("WELL_ID", well_id), KV("WELLBORE_ID", wellbore_id),
           KV("TEMP_GRADIENT_GROUP_ID", temp_group_id),
           KV("TEMP_GRADIENT_ID", id),
           KV("TEMPERATURE", StrGet(profile, "temperature", "None")),
           KV("TVD", StrGet(profile, "depth", "None")) >>)

\* update_temperature_profiles that makes an element of the rows at depth 0
\* as well
update_temperature_profiles_all(root, rng, well_id, wellbore_id, temp_group_id, temp_profiles) ==
    LET r1 == remove_existing_elements(root, "CD_TEMP_GRADIENT",
                                       "TEMP_GRADIENT_GROUP_ID", temp_group_id)
        group_index == find_group_element(r1, "CD_TEMP_GRADIENT_GROUP",
                                          "TEMP_GRADIENT_GROUP_ID", temp_group_id)
        depth_profiles ==
            SortedDesc(SelectSeq(temp_profiles, LAMBDA p : DictGet(p, "depth", 0) >= 0),
                       "depth")
        elements == [i \in 1..Len(depth_profiles) |->
                        TempGradient(depth_profiles[i], DrawnId(rng, i),
                                     well_id, wellbore_id, temp_group_id)]
    IN  IF group_index < 0 THEN [root |-> r1, rng |-> rng, ok |-> FALSE]
        ELSE [root |-> InsertAll(r1, group_index, elements, 1),
              rng |-> (rng + Len(elements)) % NumIds, ok |-> TRUE]

\* profile_handlers.py 11-85 update_temperature_profiles: the root, the
\* random stream and the value returned
update_temperature_profiles(root, rng, well_id, wellbore_id, temp_group_id, temp_profiles) ==
    LET r1 == remove_existing_elements(root, "CD_TEMP_GRADIENT",
                                       "TEMP_GRADIENT_GROUP_ID", temp_group_id)
        surface_temp == SurfaceTemps(temp_profiles)
        r2 == IF Truthy(surface_temp)
              THEN SetFirst(r1, "CD_TEMP_GRADIENT_GROUP", "TEMP_GRADIENT_GROUP_ID",
                            temp_group_id, "SURFACE_AMBIENT_TEMP",
                            StrFloat(surface_temp[1]))
              ELSE r1
        group_index == find_group_element(r2, "CD_TEMP_GRADIENT_GROUP",
                                          "TEMP_GRADIENT_GROUP_ID", temp_group_id)
        depth_profiles ==
            SortedDesc(SelectSeq(temp_profiles, LAMBDA p : DictGet(p, "depth", 0) > 0),
                       "depth")
        elements == [i \in 1..Len(depth_profiles) |->
                        TempGradient(depth_profiles[i], DrawnId(rng, i),
                                     well_id, wellbore_id, temp_group_id)]
    IN  IF group_index < 0 THEN [root |-> r2, rng |-> rng, ok |-> FALSE]
        ELSE [root |-> InsertAll(r2, group_index, elements, 1),
              rng |-> (rng + Len(elements)) % NumIds, ok |-> TRUE]

\* profile_handlers.py 168-192 and 215-238: the element of one pressure row
PressurePoint(profile, id, well_id, wellbore_id, group_id, kind) ==
    create_element(kind.point_tag,
        << KV("WELL_ID", well_id), KV("WELLBORE_ID", wellbore_id),
           KV(kind.group_key, group_id), KV(kind.point_key, id),
           KV(kind.pressure_key, StrGet(profile, "pressure", "None")),
           KV("TVD", StrGet(profile, "depth", "None")) >>
        \o (IF kind.permeable THEN << KV("IS_PERMEABLE_ZONE", "Y") >> ELSE << >>)
        \o << KV(kind.emw_key, EditEmw(profile)) >>)

\* profile_handlers.py 119-131 and 134-146 with add_pore_pressure_elements
\* (153-198) and add_frac_gradient_elements (200-244): the rows of one type
\* behind their group element, nothing when the group is not found
EditPressureGroup(root, rng, well_id, wellbore_id, group_id, pressures, kind) ==
    LET group_index == find_group_element(root, kind.group_tag, kind.group_key, group_id)
        elements == [i \in 1..Len(pressures) |->
                        PressurePoint(pressures[i], DrawnId(rng, i),
                                      well_id, wellbore_id, group_id, kind)]
    IN  IF ~ Truthy(pressures) \/ group_index < 0 THEN [root |-> root, rng |-> rng]
        ELSE [root |-> InsertAll(root, group_index, elements, 1),
              rng |-> (rng + Len(elements)) % NumIds]

\* update_pressure_profiles with the place of the frac group taken before the
\* pore points are inserted
update_pressure_profiles_stale(root, rng, well_id, wellbore_id, pore_group_id, frac_group_id, pressure_profiles) ==
    LET r1 == RemoveTags(root, { "CD_PORE_PRESSURE", "CD_FRAC_GRADIENT" })
        pore_pressures == SortedDesc(OfType(pressure_profiles, "Pore"), "depth")
        frac_pressures == SortedDesc(OfType(pressure_profiles, "Frac"), "depth")
        frac_index == find_group_element(r1, FracKind.group_tag, FracKind.group_key,
                                         frac_group_id)
        p == EditPressureGroup(r1, rng, well_id, wellbore_id, pore_group_id,
                               pore_pressures, PoreKind)
        elements == [i \in 1..Len(frac_pressures) |->
                        PressurePoint(frac_pressures[i], DrawnId(p.rng, i),
                                      well_id, wellbore_id, frac_group_id, FracKind)]
    IN  IF ~ Truthy(frac_pressures) \/ frac_index < 0
        THEN [root |-> p.root, rng |-> p.rng, ok |-> TRUE]
        ELSE [root |-> InsertAll(p.root, frac_index, elements, 1),
              rng |-> (p.rng + Len(elements)) % NumIds, ok |-> TRUE]

\* profile_handlers.py 87-151 update_pressure_profiles
update_pressure_profiles(root, rng, well_id, wellbore_id, pore_group_id, frac_group_id, pressure_profiles) ==
    LET r1 == RemoveTags(root, { "CD_PORE_PRESSURE", "CD_FRAC_GRADIENT" })
        pore_pressures == SortedDesc(OfType(pressure_profiles, "Pore"), "depth")
        frac_pressures == SortedDesc(OfType(pressure_profiles, "Frac"), "depth")
    IN  CHOOSE r \in
          { [root |-> f.root, rng |-> f.rng, ok |-> TRUE] :
            f \in { EditPressureGroup(p.root, p.rng, well_id, wellbore_id,
                                      frac_group_id, frac_pressures, FracKind) :
                    p \in { EditPressureGroup(r1, rng, well_id, wellbore_id,
                                              pore_group_id, pore_pressures,
                                              PoreKind) } } } : TRUE


\* the six audit attributes the editor's handlers write
Audit ==
    << KV("CREATE_DATE", format_timestamp(NowStr)),
       KV("CREATE_USER_ID", "API_USER"), KV("CREATE_APP_ID", "XML_API"),
       KV("UPDATE_DATE", format_timestamp(NowStr)),
       KV("UPDATE_USER_ID", "API_USER"), KV("UPDATE_APP_ID", "XML_API") >>

\* dls_handlers.py 50-74: the element of one override
DlsOverride(override, id, well_id, wellbore_id, scenario_id, dls_group_id) ==
    create_element("TU_DLS_OVERRIDE",
        << KV("WELL_ID", well_id), KV("WELLBORE_ID", wellbore_id),
           KV("SCENARIO_ID", scenario_id),
           KV("DLS_OVERRIDE_GROUP_ID", dls_group_id),
           KV("DLS_OVERRIDE_ID", id),
           KV("MD_TOP", StrGet(override, "topDepth", "None")),
           KV("MD_BASE", StrGet(override, "baseDepth", "None")),
           KV("DOGLEG_SEVERITY", StrGet(override, "doglegSeverity", "None")) >>
        \o Audit)

\* dls_handlers.py 12-85 update_dls_overrides
edit_dls_overrides(root, rng, well_id, wellbore_id, scenario_id, dls_group_id, dls_overrides) ==
    LET r1 == remove_existing_elements(root, "TU_DLS_OVERRIDE",
                                       "DLS_OVERRIDE_GROUP_ID", dls_group_id)
        group_index == find_group_element(r1, "TU_DLS_OVERRIDE_GROUP",
                                          "DLS_OVERRIDE_GROUP_ID", dls_group_id)
        sorted_overrides == SortedDesc(dls_overrides, "topDepth")
        elements == [i \in 1..Len(sorted_overrides) |->
                        DlsOverride(sorted_overrides[i], DrawnId(rng, i), well_id,
                                    wellbore_id, scenario_id, dls_group_id)]
    IN  IF group_index < 0 THEN [root |-> r1, rng |-> rng, ok |-> FALSE]
        ELSE [root |-> InsertAll(r1, group_index, elements, 1),
              rng |-> (rng + Len(elements)) % NumIds, ok |-> TRUE]

\* survey_handlers.py 57-81: the element of the i-th station, counted from 0
SurveyStation(station, id, i, well_id, wellbore_id, survey_header_id) ==
    create_element("CD_DEFINITIVE_SURVEY_STATION",
        << KV("WELL_ID", well_id), KV("WELLBORE_ID", wellbore_id),
           KV("DEF_SURVEY_HEADER_ID", survey_header_id),
           KV("DEFINITIVE_SURVEY_ID", id),
           KV("AZIMUTH", StrGet(station, "azimuth", "None")),
           KV("INCLINATION", StrGet(station, "inclination", "None")),
           KV("MD", StrGet(station, "md", "None")),
           KV("SEQUENCE_NO", StrFloat(i)),
           KV("DATA_ENTRY_MODE",
              IF DictHas(station, "dataEntryMode")
              THEN ToString(DictGet(station, "dataEntryMode", 0)) ELSE "0") >>
        \o (IF DictHas(station, "tvd")
            THEN << KV("TVD", StrGet(station, "tvd", "None")) >> ELSE << >>)
        \o (IF DictHas(station, "doglegSeverity")
            THEN << KV("DOGLEG_SEVERITY", StrGet(station, "doglegSeverity", "None")) >>
            ELSE << >>))

\* survey_handlers.py 11-93 update_survey_stations
update_survey_stations(root, rng, well_id, wellbore_id, survey_header_id, survey_stations) ==
    LET r1 == remove_existing_elements(root, "CD_DEFINITIVE_SURVEY_STATION",
                                       "DEF_SURVEY_HEADER_ID", survey_header_id)
        header_index == find_group_element(r1, "CD_DEFINITIVE_SURVEY_HEADER",
                                           "DEF_SURVEY_HEADER_ID", survey_header_id)
        r2 == IF Truthy(survey_stations) /\ DictHas(survey_stations[1], "name")
              THEN SetFirst(r1, "CD_DEFINITIVE_SURVEY_HEADER", "DEF_SURVEY_HEADER_ID",
                            survey_header_id, "NAME",
                            DictGet(survey_stations[1], "name", None))
              ELSE r1
        sorted_stations == SortedDesc(survey_stations, "md")
        elements == [i \in 1..Len(sorted_stations) |->
                        SurveyStation(sorted_stations[i], DrawnId(rng, i), i - 1,
                                      well_id, wellbore_id, survey_header_id)]
    IN  IF header_index < 0 THEN [root |-> r1, rng |-> rng, ok |-> FALSE]
        ELSE [root |-> InsertAll(r2, header_index, elements, 1),
              rng |-> (rng + Len(elements)) % NumIds, ok |-> TRUE]


\* casing_handlers.py 199-257 add_packer_details
add_packer_details(root, well_id, wellbore_id, assembly_id, component_id, component) ==
    Append(root, create_element("CD_WEQP_PACKER",
        << KV("WELL_ID", well_id), KV("WELLBORE_ID", wellbore_id),
           KV("ASSEMBLY_ID", assembly_id), KV("ASSEMBLY_COMP_ID", component_id),
           KV("PACKER_NAME", StrGet(component, "packerName", "TOC")),
           KV("PACKER_DEPTH",
              StrGet(component, "packerDepth", StrGet(component, "topDepth", "0"))),
           KV("PLUG_DEPTH",
              StrGet(component, "plugDepth", StrGet(component, "bottomDepth", "0"))),
           KV("BORE_INNER_DIAMETER", StrGet(component, "innerDiameter", "0")),
           KV("HYDRAULIC_SET_PRESSURE", "0.0"), KV("SLIP_TYPE", "0"),
           KV("AXIAL_LOAD_CHANGE", "0.0"), KV("AXIAL_LOAD_CHANGE_DIRECTION", "0"),
           KV("IS_SEAL_BORE_PRESENT", "N"), KV("SEAL_ASSEMBLY_TYPE", "0"),
           KV("IS_SEAL_MOVEMENT_ALLOWED", "N"), KV("UPWARD_MOVEMENT_LEN", "30.0"),
           KV("DOWNWARD_MOVEMENT_LEN", "0.0"), KV("IS_UPWARD_NOGO_PRESENT", "N"),
           KV("IS_DOWNWARD_NOGO_PRESENT", "N"), KV("UPWARD_MOVEMENT_LENGTH", "0.0"),
           KV("DOWNWARD_MOVEMENT_LENGTH", "0.0"), KV("PACKER_TYPE_FLAG", "8.0"),
           KV("RUNNING_STRING_FLAG", "0.0"), KV("SET_TYPE", "0.0"),
           KV("HYDROSTATIC_SET_PRESSURE", "0.0"),
           KV("IS_ANNULAR_VALVE_SEAL_OPEN", "N"),
           KV("EXPANSION_JOINT_DEPTH",
              StrFloat(DictGet(component, "packerDepth", 0) - 1)),
           KV("IS_SHEARED", "N"), KV("SHEAR_PIN_RATING", "10000.0"),
           KV("PBR_TOTAL_STROKE", "30.0"), KV("IS_SPACED_OUT", "N"),
           KV("IS_EXP_JOINT_NOGO_PRESENT", "N") >>))

\* casing_handlers.py 155-176: the optional properties of a component, under
\* the attribute names the handler gives them
OptionalProperties ==
    << KV("jointStrength", "JOINT_STRENGTH"), KV("pipeType", "PIPE_TYPE"),
       KV("poissonsRatio", "POISSONS_RATIO"), KV("minYieldStress", "MIN_YIELD_STRESS"),
       KV("ultimateTensileStrength", "ULTIMATE_TENSILE_STRENGTH"),
       KV("thermalExpansionCoef", "THERMAL_EXPANSION_COEF"),
       KV("youngsModulus", "YOUNGS_MODULUS"),
       KV("wallThicknessPercent", "WALL_THICKNESS_PERCENT"),
       KV("connectionName", "CONNECTION_NAME"),
       KV("connectionGrade", "CONNECTION_GRADE") >>

\* casing_handlers.py 122-180: the attributes of the i-th component, counted
\* from 0
ComponentAttrs(component, component_id, i, well_id, wellbore_id, assembly_id) ==
    << KV("WELL_ID", well_id), KV("WELLBORE_ID", wellbore_id),
       KV("ASSEMBLY_ID", assembly_id), KV("ASSEMBLY_COMP_ID", component_id),
       KV("COMP_TYPE_CODE", StrGet(component, "componentType", "None")),
       KV("SECT_TYPE_CODE", StrGet(component, "componentType", "None")),
       KV("SEQUENCE_NO", StrFloat(i)) >>
    \o Audit
    \o (IF DictGet(component, "componentType", None) = "PKR" THEN << >>
        ELSE << KV("OD_BODY", StrGet(component, "outerDiameter", "None")),
                KV("ID_BODY", StrGet(component, "innerDiameter", "None")),
                KV("LENGTH", StrGet(component, "length", "None")),
                KV("MD_TOP", StrGet(component, "topDepth", "None")),
                KV("MD_BASE", StrGet(component, "bottomDepth", "None")),
                KV("CONNECTION_TYPE", StrGet(component, "connectionType", "")),
                KV("GRADE", StrGet(component, "grade", "")),
                KV("APPROXIMATE_WEIGHT", StrGet(component, "weight", "0")),
                KV("PRESSURE_BURST", StrGet(component, "pressureBurst", "0")),
                KV("PRESSURE_COLLAPSE", StrGet(component, "pressureCollapse", "0")),
                KV("AXIAL_RATING", StrGet(component, "axialStrength", "0")) >>
             \o [n \in 1..Len(SelectSeq(OptionalProperties,
                                        LAMBDA o : DictHas(component, o.k))) |->
                   LET o == SelectSeq(OptionalProperties,
                                      LAMBDA q : DictHas(component, q.k))[n]
                   IN  KV(o.v, StrGet(component, o.k, "None"))]
             \o (IF DictHas(component, "materialId")
                    /\ ~ IsFalsyStr(DictGet(component, "materialId", None))
                 THEN << KV("MATERIAL_ID", DictGet(component, "materialId", None)) >>
                 ELSE << >>))

\* casing_handlers.py 117-192: the components of one assembly in turn
RECURSIVE EditComponents(_, _, _, _, _, _, _)
EditComponents(root, rng, well_id, wellbore_id, assembly_id, components, n) ==
    IF n > Len(components) THEN [root |-> root, rng |-> rng]
    ELSE LET component == components[n]
             g == generate_random_id(rng)
             component_id == DictGet(component, "componentId", g.id)
             r1 == Append(root,
                      create_element("CD_ASSEMBLY_COMP",
                          ComponentAttrs(component, component_id, n - 1,
                                         well_id, wellbore_id, assembly_id)))
             r2 == IF DictGet(component, "componentType", None) = "PKR"
                   THEN add_packer_details(r1, well_id, wellbore_id, assembly_id,
                                           component_id, component)
                   ELSE r1
         IN  EditComponents(r2, g.rng, well_id, wellbore_id, assembly_id,
                            components, n + 1)

\* casing_handlers.py 94-197 update_assembly_components
update_assembly_components(root, rng, well_id, wellbore_id, assembly_id, components) ==
    EditComponents(
        remove_existing_elements(
            remove_existing_elements(root, "CD_ASSEMBLY_COMP", "ASSEMBLY_ID", assembly_id),
            "CD_WEQP_PACKER", "ASSEMBLY_ID", assembly_id),
        rng, well_id, wellbore_id, assembly_id, components, 1)


\* casing_handlers.py 50-70: the attributes of an assembly
AssemblyAttrs(assembly, assembly_id, well_id, wellbore_id) ==
    << KV("WELL_ID", well_id), KV("WELLBORE_ID", wellbore_id),
       KV("ASSEMBLY_ID", assembly_id),
       KV("STRING_TYPE", StrGet(assembly, "stringType", "None")),
       KV("STRING_CLASS", StrGet(assembly, "stringClass", "")),
       KV("ASSEMBLY_NAME", StrGet(assembly, "assemblyName", "None")),
       KV("ASSEMBLY_SIZE", StrGet(assembly, "assemblySize", "0")),
       KV("HOLE_SIZE", StrGet(assembly, "holeSize", "0")),
       KV("MD_ASSEMBLY_BASE", StrGet(assembly, "baseDepth", "None")),
       KV("MD_ASSEMBLY_TOP", StrGet(assembly, "topDepth", "None")),
       KV("MD_TOC", StrGet(assembly, "tocDepth", StrGet(assembly, "topDepth", "None"))),
       KV("MUD_DENSITY_SHOE", StrGet(assembly, "mudDensityShoe", "0")),
       KV("IS_TOP_DOWN", StrGet(assembly, "isTopDown", "Y")) >>
    \o Audit

\* casing_handlers.py 289-311: one CD_CASE for every created assembly
RECURSIVE NewCases(_, _, _, _, _, _, _)
NewCases(root, rng, well_id, wellbore_id, scenario_id, assemblies, n) ==
    IF n > Len(assemblies) THEN [root |-> root, rng |-> rng]
    ELSE LET g == generate_random_id(rng)
         IN  NewCases(
                Append(root, create_element("CD_CASE",
                    << KV("WELL_ID", well_id), KV("WELLBORE_ID", wellbore_id),
                       KV("SCENARIO_ID", scenario_id), KV("CASE_ID", g.id),
                       KV("CASE_NAME", assemblies[n].name),
                       KV("ASSEMBLY_ID", assemblies[n].id),
                       KV("IS_LINKED", "Y"), KV("SEQUENCE_NO", StrFloat(n - 1)) >>
                    \o Audit)),
                g.rng, well_id, wellbore_id, scenario_id, assemblies, n + 1)

\* casing_handlers.py 259-318 update_case_elements
update_case_elements(root, rng, well_id, wellbore_id, assemblies) ==
    IF ~ Truthy(FindAll(root, "CD_SCENARIO"))
    THEN [root |-> root, rng |-> rng, ok |-> FALSE]
    ELSE LET ids == { assemblies[n].id : n \in 1..Len(assemblies) }
             r1  == SelectSeq(root, LAMBDA e :
                       ~ (e.tag = "CD_CASE" /\ ElemGet(e, "ASSEMBLY_ID") \in ids))
             c   == NewCases(r1, rng, well_id, wellbore_id,
                             FirstGet(root, "CD_SCENARIO", "SCENARIO_ID"),
                             assemblies, 1)
         IN  [root |-> c.root, rng |-> c.rng, ok |-> TRUE]

\* casing_handlers.py 37-84: the assemblies in turn; created holds the id and
\* name of those made so far
RECURSIVE EditAssemblies(_, _, _, _, _, _, _, _)
EditAssemblies(root, rng, well_id, wellbore_id, assemblies, existing_ids, i, created) ==
    IF i > Len(assemblies) THEN [root |-> root, rng |-> rng, created |-> created]
    ELSE LET assembly == assemblies[i]
             given == DictGet(assembly, "assemblyId", None)
             g  == IF ~ IsFalsyStr(given) THEN [id |-> given, rng |-> rng]
                   ELSE IF i <= Len(existing_ids)
                   THEN [id |-> existing_ids[i], rng |-> rng]
                   ELSE generate_random_id(rng)
             r1 == Append(remove_existing_elements(root, "CD_ASSEMBLY",
                                                   "ASSEMBLY_ID", g.id),
                          create_element("CD_ASSEMBLY",
                              AssemblyAttrs(assembly, g.id, well_id, wellbore_id)))
             components == DictGet(assembly, "components", << >>)
             r2 == IF Truthy(components)
                   THEN update_assembly_components(r1, g.rng, well_id, wellbore_id,
                                                   g.id, components)
                   ELSE [root |-> r1, rng |-> g.rng]
         IN  EditAssemblies(r2.root, r2.rng, well_id, wellbore_id, assemblies,
                            existing_ids, i + 1,
                            Append(created,
                                   [id |-> g.id,
                                    name |-> StrGet(assembly, "assemblyName", "None")]))

\* casing_handlers.py 12-92 update_casing_assemblies
update_casing_assemblies(root, rng, well_id, wellbore_id, assemblies) ==
    LET existing == FindAll(root, "CD_ASSEMBLY")
        existing_ids == [n \in 1..Len(existing) |-> ElemGet(existing[n], "ASSEMBLY_ID")]
        a == EditAssemblies(root, rng, well_id, wellbore_id, assemblies,
                            existing_ids, 1, << >>)
        c == update_case_elements(a.root, a.rng, well_id, wellbore_id, a.created)
    IN  [root |-> c.root, rng |-> c.rng, ok |-> TRUE]


(***************************************************************************)
(* The inputs of the editor: fully formed documents, and payloads whose    *)
(* lists hold several rows, out of depth order and with equal depths.      *)
(***************************************************************************)
EditScenario(temp_group_id) ==
    Elem("CD_SCENARIO",
         << KV("WELL_ID", "well1"), KV("WELLBORE_ID", "bore1"),
            KV("SCENARIO_ID", "scen1"), KV("NAME", "Old"),
            KV("TEMP_GRADIENT_GROUP_ID", temp_group_id),
            KV("PORE_PRESSURE_GROUP_ID", "pg1"), KV("FRAC_GRADIENT_GROUP_ID", "fg1"),
            KV("DEF_SURVEY_HEADER_ID", "sh1"), KV("DATUM_ID", "datum1") >>)

EditIdentity ==
    << Elem("CD_SITE", << KV("SITE_ID", "site1"), KV("SITE_NAME", "Old site") >>),
       Elem("CD_WELL", << KV("WELL_ID", "well1"), KV("SITE_ID", "site1"),
                          KV("WELL_COMMON_NAME", "Old well") >>),
       Elem("CD_WELLBORE", << KV("WELLBORE_ID", "bore1"), KV("WELL_ID", "well1"),
                              KV("WELLBORE_NAME", "Old bore") >>) >>

OldPoint(tag, group_key, group_id, id_key, id) ==
    Elem(tag, << KV(group_key, group_id), KV(id_key, id), KV("TVD", "100.0") >>)

\* the list sections of a document: every group element with an old member,
\* the pore and the frac group next to each other, an old pore point behind
\* the frac group
EditGroups ==
    << Elem("CD_DATUM", << KV("DATUM_ID", "datum1"), KV("DATUM_NAME", "Old datum") >>),
       Elem("CD_TEMP_GRADIENT_GROUP", << KV("TEMP_GRADIENT_GROUP_ID", "tg1") >>),
       OldPoint("CD_TEMP_GRADIENT", "TEMP_GRADIENT_GROUP_ID", "tg1",
                "TEMP_GRADIENT_ID", "oldtemp"),
       Elem("CD_PORE_PRESSURE_GROUP", << KV("PORE_PRESSURE_GROUP_ID", "pg1") >>),
       Elem("CD_FRAC_GRADIENT_GROUP", << KV("FRAC_GRADIENT_GROUP_ID", "fg1") >>),
       OldPoint("CD_PORE_PRESSURE", "PORE_PRESSURE_GROUP_ID", "pg1",
                "PORE_PRESSURE_ID", "oldpore"),
       Elem("TU_DLS_OVERRIDE_GROUP", << KV("DLS_OVERRIDE_GROUP_ID", "dg1") >>),
       OldPoint("TU_DLS_OVERRIDE", "DLS_OVERRIDE_GROUP_ID", "dg1",
                "DLS_OVERRIDE_ID", "olddls"),
       Elem("CD_DEFINITIVE_SURVEY_HEADER",
            << KV("DEF_SURVEY_HEADER_ID", "sh1"), KV("NAME", "Old survey") >>),
       OldPoint("CD_DEFINITIVE_SURVEY_STATION", "DEF_SURVEY_HEADER_ID", "sh1",
                "DEFINITIVE_SURVEY_ID", "oldstation"),
       Elem("CD_ASSEMBLY", << KV("ASSEMBLY_ID", "oldasm"), KV("ASSEMBLY_NAME", "Old") >>),
       Elem("CD_CASE", << KV("CASE_ID", "oldcase"), KV("SCENARIO_ID", "scen1"),
                          KV("ASSEMBLY_ID", "oldasm") >>) >>

\* the list sections of a second design in the same document: groups with
\* IDs of their own, each with a member
OtherGroups ==
    << Elem("CD_TEMP_GRADIENT_GROUP", << KV("TEMP_GRADIENT_GROUP_ID", "tg2") >>),
       OldPoint("CD_TEMP_GRADIENT", "TEMP_GRADIENT_GROUP_ID", "tg2",
                "TEMP_GRADIENT_ID", "othertemp"),
       Elem("CD_PORE_PRESSURE_GROUP", << KV("PORE_PRESSURE_GROUP_ID", "pg2") >>),
       OldPoint("CD_PORE_PRESSURE", "PORE_PRESSURE_GROUP_ID", "pg2",
                "PORE_PRESSURE_ID", "otherpore"),
       Elem("CD_FRAC_GRADIENT_GROUP", << KV("FRAC_GRADIENT_GROUP_ID", "fg2") >>),
       OldPoint("CD_FRAC_GRADIENT", "FRAC_GRADIENT_GROUP_ID", "fg2",
                "FRAC_GRADIENT_ID", "otherfrac"),
       Elem("TU_DLS_OVERRIDE_GROUP", << KV("DLS_OVERRIDE_GROUP_ID", "dg2") >>),
       OldPoint("TU_DLS_OVERRIDE", "DLS_OVERRIDE_GROUP_ID", "dg2",
                "DLS_OVERRIDE_ID", "otherdls"),
       Elem("CD_DEFINITIVE_SURVEY_HEADER",
            << KV("DEF_SURVEY_HEADER_ID", "sh2"), KV("NAME", "Other survey") >>),
       OldPoint("CD_DEFINITIVE_SURVEY_STATION", "DEF_SURVEY_HEADER_ID", "sh2",
                "DEFINITIVE_SURVEY_ID", "otherstation") >>

\* a full document; one whose Scenario names a temperature group that the
\* document does not hold, and that has no survey header element; one with
\* no Scenario; one with nothing in it; a full document that also holds the
\* groups of a second design
EditTemplates ==
    << Tree("export", EmptyDict,
            EditIdentity \o << EditScenario("tg1") >> \o EditGroups),
       Tree("export", EmptyDict,
            EditIdentity \o << EditScenario("tg9") >>
            \o SelectSeq(EditGroups, LAMBDA e : e.tag # "CD_DEFINITIVE_SURVEY_HEADER")),
       Tree("export", EmptyDict, EditIdentity \o EditGroups),
       Tree("export", EmptyDict, << >>),
       Tree("export", EmptyDict,
            EditIdentity \o << EditScenario("tg1") >> \o EditGroups \o OtherGroups) >>

EditTempRows ==
    << << KV("depth", 0), KV("temperature", 15) >>,
       << KV("depth", 1000), KV("temperature", 50) >>,
       << KV("depth", 2000), KV("temperature", 80) >>,
       << KV("depth", 1000), KV("temperature", 55) >> >>

EditPressureRows ==
    << PoreRow, FracRow,
       << KV("depth", 2000), KV("pressure", 1040), KV("pressureType", "Pore") >>,
       << KV("depth", 2000), KV("pressure", 1560), KV("pressureType", "Frac") >>,
       << KV("depth", 1000), KV("pressure", 530), KV("pressureType", "Pore") >>,
       HydroRow >>

EditDlsGroup ==
    << KV("overrides",
          << << KV("topDepth", 0), KV("baseDepth", 500), KV("doglegSeverity", 3) >>,
             << KV("topDepth", 500), KV("baseDepth", 1000), KV("doglegSeverity", 2) >>,
             << KV("topDepth", 500), KV("baseDepth", 900), KV("doglegSeverity", 4) >> >>) >>

EditSurveyHeader ==
    << KV("name", "Plan"),
       KV("stations",
          << << KV("azimuth", 0), KV("inclination", 0), KV("md", 0) >>,
             << KV("azimuth", 90), KV("inclination", 10), KV("md", 500) >>,
             << KV("azimuth", 95), KV("inclination", 20), KV("md", 1000) >>,
             << KV("azimuth", 80), KV("inclination", 12), KV("md", 500) >> >>) >>

\* formationInputs sections of the editor's payloads; the first is "no
\* formationInputs key"
EditFormationInputs ==
    << << >>,
       << << KV("temperatureProfiles", EditTempRows) >> >>,
       << << KV("pressureProfiles", EditPressureRows) >> >>,
       << << KV("pressureProfiles", << FracRow >>) >> >>,
       << << KV("dlsOverrideGroup", EditDlsGroup) >> >>,
       << << KV("surveyHeader", EditSurveyHeader) >> >>,
       << << KV("temperatureProfiles", EditTempRows),
             KV("pressureProfiles", EditPressureRows),
             KV("dlsOverrideGroup", EditDlsGroup),
             KV("surveyHeader", EditSurveyHeader) >> >>,
       << << KV("temperatureProfiles", << EditTempRows[2] >>) >> >> >>

\* a packer among the components of an assembly
Packer ==
    << KV("componentType", "PKR"), KV("topDepth", 400), KV("bottomDepth", 410),
       KV("packerDepth", 400) >>

EditCasingSchematics ==
    << << >>,
       CasingSchematics[3],
       CasingSchematics[6],
       << << KV("assemblies",
                << Assembly("Production", << >>, << Pipe, Packer >>) >>) >> >> >>

\* the payload with the n[1]-th project info, the n[2]-th formation inputs of
\* the editor, the n[3]-th casing schematics of the editor, the n[4]-th datum
EditPayloadOf(n) ==
    << KV("projectInfo", ProjectInfos[n[1]]) >>
    \o Section("formationInputs", EditFormationInputs[n[2]])
    \o Section("casingSchematics", EditCasingSchematics[n[3]])
    \o Section("datum", Datums[n[4]])

EditPayloadNumbers ==
    ({ 1 } \X (1..Len(EditFormationInputs)) \X { 1 } \X { 1 })
    \cup ({ 2, 8 } \X { 1, 7 } \X (1..Len(EditCasingSchematics)) \X { 1, 2 })

(***************************************************************************)
(* State.                                                                  *)
(*   generator  the XMLGenerator instance the controller builds once and   *)
(*              shares (controllers/xml_controller.py 17): its id_registry *)
(*   rng        position of the interpreter-wide random stream             *)
(*   pc         per call: the step of generate_xml the call has reached    *)
(*   payload    per call: the payload dict (prepare_ids writes into it)    *)
(*   doc        per call: the document tree loaded from the template       *)
(*   result     per call: what generate_xml returned or raised             *)
(*   op, ret    the last call made on the registry API directly, and what  *)
(*              it returned                                                *)
(*   ncalls     calls of XMLGenerator.generate_xml started on the generator *)
(*   workload   what the clients of this run send: the payloads, the       *)
(*              templates and libraries on disk, the random seeds          *)
(***************************************************************************)
VARIABLES generator, rng, pc, payload, doc, result, op, ret, ncalls, workload

vars == << generator, rng, pc, payload, doc, result, op, ret, ncalls, workload >>

callVars == << pc, payload, doc, result, ncalls, workload >>
apiVars  == << op, ret >>

\* concurrent requests served by the threaded development server
Calls == 1..2

NoDoc == Doc(None, << >>, << >>)
NoXml == [preamble |-> << >>, root |-> None, others |-> << >>, export |-> << >>]
NoResult == [status |-> "none", xml |-> NoXml, message |-> << >>]
NoOp == [name |-> "none", entity_type |-> None, seed |-> 0]
NoRet == [id |-> None, errors |-> << >>]

FullWorkload ==
    [payloads |-> PayloadNumbers, templates |-> 1..Len(Templates),
     libraries |-> 1..Len(Libraries), seeds |-> 0..(NumSeeds - 1)]

\* XMLGenerator.__init__ (xml_generator.py 22-30) at import of the controller
Started(w) ==
    /\ workload = w
    /\ generator = [id_registry |-> NewIDRegistry]
    /\ rng = 0
    /\ pc = [c \in Calls |-> "idle"]
    /\ payload = [c \in Calls |-> EmptyDict]
    /\ doc = [c \in Calls |-> NoDoc]
    /\ result = [c \in Calls |-> NoResult]
    /\ op = NoOp
    /\ ret = NoRet
    /\ ncalls = 0

Init == Started(FullWorkload)

(***************************************************************************)
(* The registry API called directly.                                       *)
(***************************************************************************)
RegTypes == { "SITE", "WELL" }
RegIds == { IdOf(1), IdOf(2) }
RegData == { << KV("name", "A") >> }

RECURSIVE SumLens(_, _)
SumLens(d, i) == IF i > Len(d) THEN 0 ELSE Len(d[i].v) + SumLens(d, i + 1)

\* all IDs of the registry, of every type
AllIds(reg) == UNION { SeqToSet(reg.id_map[i].v) : i \in 1..Len(reg.id_map) }

RegGenerate ==
    \E t \in RegTypes, seed \in 0..(NumSeeds - 1) :
        /\ SumLens(generator.id_registry.id_map, 1) < MaxRegIds
        /\ LET g == generate_id(generator.id_registry, seed, t)
           IN  /\ generator' = [generator EXCEPT !.id_registry = g.reg]
               /\ rng' = g.rng
               /\ ret' = [id |-> g.id, errors |-> << >>]
        /\ op' = [name |-> "generate_id", entity_type |-> t, seed |-> seed]
        /\ UNCHANGED callVars

RegRegister ==
    \E t \in RegTypes, id \in RegIds, data \in RegData :
        /\ SumLens(generator.id_registry.id_map, 1) < MaxRegIds
        /\ generator' = [generator EXCEPT
                           !.id_registry = register_entity(@, t, id, data)]
        /\ op' = [name |-> "register_entity", entity_type |-> t, seed |-> 0]
        /\ ret' = NoRet
        /\ UNCHANGED << rng, callVars >>

RegRelate ==
    \E pt \in RegTypes, ct \in RegTypes, pid \in RegIds, cid \in RegIds :
        /\ SumLens(generator.id_registry.relationship_map, 1) < MaxRels
        /\ generator' = [generator EXCEPT
                           !.id_registry = register_relationship(@, pt, pid, ct, cid)]
        /\ op' = [name |-> "register_relationship", entity_type |-> pt, seed |-> 0]
        /\ ret' = NoRet
        /\ UNCHANGED << rng, callVars >>

RegValidate ==
    /\ ret' = [id |-> None, errors |-> validate_references(generator.id_registry)]
    /\ op' = [name |-> "validate_references", entity_type |-> None, seed |-> 0]
    /\ UNCHANGED << generator, rng, callVars >>

NextRegistry == RegGenerate \/ RegRegister \/ RegRelate \/ RegValidate

SpecRegistry == Init /\ [][NextRegistry]_vars

\* C1: generate_id(entity_type) returns an ID that no type's list held
\* before the call; after the call the ID is in the list of entity_type and
\* in the list of no other type.
C1_GenerateIdFresh ==
    [][ op'.name = "generate_id" =>
          /\ \A i \in 1..Len(generator.id_registry.id_map) :
                ret'.id \notin SeqToSet(generator.id_registry.id_map[i].v)
          /\ \A i \in 1..Len(generator'.id_registry.id_map) :
                ret'.id \in SeqToSet(generator'.id_registry.id_map[i].v)
                   <=> generator'.id_registry.id_map[i].k = op'.entity_type
          /\ ret'.id \in SeqToSet(IdsOf(generator'.id_registry, op'.entity_type))
      ]_vars

\* C1 witness: generate_id has returned after a collision, the first
\* candidate of the stream being an ID registered before
C1_Witness ==
    /\ op.name = "generate_id"
    /\ ret.id # Candidate(op.seed)
    /\ Candidate(op.seed) \in AllIds(generator.id_registry)

\* the relationships of the registry with a missing parent, and the child
\* entries that are missing, as positions of relationship_map
MissingParents(reg) ==
    { i \in 1..Len(reg.relationship_map) :
        ~ \E n \in 1..Len(reg.id_map) :
            /\ reg.id_map[n].k = reg.relationship_map[i].k[1]
            /\ \E m \in 1..Len(reg.id_map[n].v) :
                  reg.id_map[n].v[m] = reg.relationship_map[i].k[2] }

MissingChildren(reg) ==
    { ij \in UNION { { <<i, j>> : j \in 1..Len(reg.relationship_map[i].v) } :
                       i \in 1..Len(reg.relationship_map) } :
        ~ \E n \in 1..Len(reg.id_map) :
            /\ reg.id_map[n].k = reg.relationship_map[ij[1]].k[3]
            /\ \E m \in 1..Len(reg.id_map[n].v) :
                  reg.id_map[n].v[m] = reg.relationship_map[ij[1]].v[ij[2]] }

Goto(c, label) == pc' = [pc EXCEPT ![c] = label]

SetExport(c, export) == doc' = [doc EXCEPT ![c].export = export]

\* core.py 36-129
Load(c) ==
    /\ pc[c] = "idle"
    /\ \E t \in workload.templates :
          doc' = [doc EXCEPT ![c] =
                    [LoadTemplate(Templates[t]) EXCEPT !.export = FixedSections(@)]]
    /\ Goto(c, "prepare_ids")
    /\ UNCHANGED << generator, rng, payload, result, ncalls, workload, apiVars >>

\* the generator and the payload of call c as prepare_ids leaves them
Prepared(c, r) ==
    /\ generator' = [generator EXCEPT !.id_registry = r.reg]
    /\ rng' = r.rng
    /\ payload' = [payload EXCEPT ![c] = r.payload]

\* the generator and the document of call c as a handler leaves them
Updated(c, r) ==
    /\ generator' = [generator EXCEPT !.id_registry = r.reg]
    /\ rng' = r.rng
    /\ SetExport(c, r.export)

\* core.py 132: generator._prepare_ids(payload), on the payload the client
\* sent, the random stream being wherever other draws have left it
PrepareIds(c) ==
    /\ pc[c] = "prepare_ids"
    /\ \E n \in workload.payloads, seed \in workload.seeds :
          Prepared(c, prepare_ids(generator.id_registry, seed, PayloadOf(n)))
    /\ Goto(c, "clear")
    /\ UNCHANGED << doc, result, ncalls, workload, apiVars >>

\* core.py 135
Clear(c) ==
    /\ pc[c] = "clear"
    /\ SetExport(c, clear_template_elements(doc[c].export, payload[c]))
    /\ Goto(c, "project_info")
    /\ UNCHANGED << generator, rng, payload, result, ncalls, workload, apiVars >>

\* core.py 138
ProjectInfo(c) ==
    /\ pc[c] = "project_info"
    /\ SetExport(c, update_project_info(doc[c].export,
                                        DictGet(payload[c], "projectInfo", EmptyDict)))
    /\ Goto(c, "scenario")
    /\ UNCHANGED << generator, rng, payload, result, ncalls, workload, apiVars >>

\* core.py 141
Scenario(c) ==
    /\ pc[c] = "scenario"
    /\ SetExport(c, add_scenario_element(generator.id_registry, doc[c].export))
    /\ Goto(c, "dls")
    /\ UNCHANGED << generator, rng, payload, result, ncalls, workload, apiVars >>

\* core.py 144-145
Dls(c) ==
    /\ pc[c] = "dls"
    /\ LET formation_inputs == DictGet(payload[c], "formationInputs", EmptyDict)
       IN  SetExport(c,
              IF DictHas(payload[c], "formationInputs")
                 /\ DictHas(formation_inputs, "dlsOverrideGroup")
              THEN update_dls_overrides(generator.id_registry, doc[c].export,
                      DictGet(formation_inputs, "dlsOverrideGroup", EmptyDict))
              ELSE doc[c].export)
    /\ Goto(c, "casing")
    /\ UNCHANGED << generator, rng, payload, result, ncalls, workload, apiVars >>

\* core.py 148
Casing(c) ==
    /\ pc[c] = "casing"
    /\ Updated(c, update_casing_schematics(generator.id_registry, rng, doc[c].export,
                   DictGet(payload[c], "casingSchematics", EmptyDict)))
    /\ Goto(c, "survey")
    /\ UNCHANGED << payload, result, ncalls, workload, apiVars >>

\* core.py 151-152
Survey(c) ==
    /\ pc[c] = "survey"
    /\ LET formation_inputs == DictGet(payload[c], "formationInputs", EmptyDict)
       IN  SetExport(c,
              IF DictHas(payload[c], "formationInputs")
                 /\ DictHas(formation_inputs, "surveyHeader")
              THEN update_survey_header(generator.id_registry, doc[c].export,
                      DictGet(formation_inputs, "surveyHeader", EmptyDict))
              ELSE doc[c].export)
    /\ Goto(c, "formation")
    /\ UNCHANGED << generator, rng, payload, result, ncalls, workload, apiVars >>

\* core.py 155
Formation(c) ==
    /\ pc[c] = "formation"
    /\ Updated(c, update_formation_inputs(generator.id_registry, rng, doc[c].export,
                   DictGet(payload[c], "formationInputs", EmptyDict)))
    /\ Goto(c, "datum")
    /\ UNCHANGED << payload, result, ncalls, workload, apiVars >>

\* core.py 158-159
Datum(c) ==
    /\ pc[c] = "datum"
    /\ SetExport(c,
          IF DictHas(payload[c], "datum")
          THEN update_datum(generator.id_registry, doc[c].export,
                            DictGet(payload[c], "datum", EmptyDict))
          ELSE doc[c].export)
    /\ Goto(c, "cases")
    /\ UNCHANGED << generator, rng, payload, result, ncalls, workload, apiVars >>

\* core.py 162
CaseElements(c) ==
    /\ pc[c] = "cases"
    /\ SetExport(c, add_case_elements(generator.id_registry, doc[c].export))
    /\ Goto(c, "validate")
    /\ UNCHANGED << generator, rng, payload, result, ncalls, workload, apiVars >>

\* a validation step that goes on whatever validate_references returns
ValidateUnchecked(c) ==
    /\ pc[c] = "validate"
    /\ Goto(c, "inject")
    /\ UNCHANGED << generator, rng, payload, doc, result, ncalls, workload,
                    apiVars >>

\* core.py 165-167: raise ValueError("\n".join(validation_errors)), the
\* message kept as the list of its lines
Validate(c) ==
    /\ pc[c] = "validate"
    /\ LET validation_errors == validate_references(generator.id_registry)
       IN  IF Truthy(validation_errors)
           THEN /\ result' = [result EXCEPT ![c] =
                     [status |-> "error", xml |-> NoXml, message |-> validation_errors]]
                /\ Goto(c, "raised")
           ELSE /\ result' = result
                /\ Goto(c, "inject")
    /\ UNCHANGED << generator, rng, payload, doc, ncalls, workload, apiVars >>

\* core.py 170-178: the binary library, serialization, return
Finish(c) ==
    /\ pc[c] = "inject"
    /\ \E l \in workload.libraries :
          LET r == inject_binary_data(generator.id_registry, rng, doc[c].export,
                                      Libraries[l])
          IN  /\ generator' = [generator EXCEPT !.id_registry = r.reg]
              /\ rng' = r.rng
              /\ SetExport(c, r.export)
              /\ result' = [result EXCEPT ![c] =
                    [status |-> "ok",
                     xml |-> fix_xml_structure(xml_to_string(
                                [doc[c] EXCEPT !.export = r.export])),
                     message |-> << >>]]
    /\ Goto(c, "returned")
    /\ UNCHANGED << payload, ncalls, workload, apiVars >>

\* the controller has answered the request; the thread serves the next one
Answer(c) ==
    /\ pc[c] \in { "returned", "raised" }
    /\ pc' = [pc EXCEPT ![c] = "idle"]
    /\ payload' = [payload EXCEPT ![c] = EmptyDict]
    /\ doc' = [doc EXCEPT ![c] = NoDoc]
    /\ result' = [result EXCEPT ![c] = NoResult]
    /\ UNCHANGED << generator, rng, ncalls, workload, apiVars >>

Step(c) ==
    \/ Load(c) \/ PrepareIds(c) \/ Clear(c) \/ ProjectInfo(c) \/ Scenario(c)
    \/ Dls(c) \/ Casing(c) \/ Survey(c) \/ Formation(c) \/ Datum(c)
    \/ CaseElements(c) \/ Validate(c) \/ Finish(c) \/ Answer(c)

\* requests served one after the other
Next == Step(1)

Spec == Init /\ [][Next]_vars

(***************************************************************************)
(* Properties of one generation call at a time.                            *)
(***************************************************************************)
\* the positions of the registry's ID lists, as << type number, place >>
IdPlaces(reg) ==
    UNION { { << i, m >> : m \in 1..Len(reg.id_map[i].v) } : i \in 1..Len(reg.id_map) }

IdAt(reg, place) == reg.id_map[place[1]].v[place[2]]

\* the IDs registered under entity_type
Registered(reg, entity_type) == SeqToSet(IdsOf(reg, entity_type))

\* C2: after ID preparation no ID string is in the lists of two entity
\* types, and none is twice in one list.
C2_IdsUniqueAcrossTypes ==
    \A c \in Calls :
        pc[c] = "clear" =>
            \A x \in IdPlaces(generator.id_registry), y \in IdPlaces(generator.id_registry) :
                x # y => IdAt(generator.id_registry, x) # IdAt(generator.id_registry, y)

\* C5: generate_xml returns a document only if validate_references
\* returned no error: with a relationship whose parent or child is missing
\* the call raises one error that carries every message and nothing is
\* serialized; on a successful generation validate_references is empty.
C5_ValidationGate ==
    \A c \in Calls :
        /\ pc[c] = "inject" =>
              /\ MissingParents(generator.id_registry) = {}
              /\ MissingChildren(generator.id_registry) = {}
              /\ result[c] = NoResult
        /\ pc[c] = "raised" =>
              /\ MissingParents(generator.id_registry) \cup
                    MissingChildren(generator.id_registry) # {}
              /\ result[c].status = "error"
              /\ result[c].xml = NoXml
              /\ result[c].message = validate_references(generator.id_registry)
              /\ \A i \in MissingParents(generator.id_registry) :
                    \E n \in 1..Len(result[c].message) :
                       result[c].message[n] =
                          ParentError(generator.id_registry.relationship_map[i].k[1],
                                      generator.id_registry.relationship_map[i].k[2])
              /\ \A ij \in MissingChildren(generator.id_registry) :
                    \E n \in 1..Len(result[c].message) :
                       result[c].message[n] =
                          ChildError(generator.id_registry.relationship_map[ij[1]].k[3],
                                     generator.id_registry.relationship_map[ij[1]].v[ij[2]])
        /\ result[c].status = "ok" =>
              /\ pc[c] = "returned"
              /\ validate_references(generator.id_registry) = << >>
        /\ result[c].status = "error" => pc[c] = "raised"

\* C5 witness: a call has raised an error that carries two messages
C5_Witness ==
    /\ pc[1] = "raised"
    /\ result[1].status = "error"
    /\ Len(result[1].message) = 2

\* the children of the export element in the document call c returned
Returned(c) == result[c].xml.export

\* an element the base template held, as opposed to one a handler created
FromTemplate(e) ==
    \E t \in 1..Len(Templates) : e \in SeqToSet(LoadTemplate(Templates[t]).export)

\* the foreign keys of the elements the handlers create: the element, the
\* attribute, and the entity type the attribute refers to
ForeignKeys ==
    { << "CD_WELL", "SITE_ID", "SITE" >>,
      << "CD_WELLBORE", "WELL_ID", "WELL" >>,
      << "CD_ASSEMBLY_COMP", "ASSEMBLY_ID", "ASSEMBLY" >>,
      << "CD_ASSEMBLY_COMP", "MATERIAL_ID", "MATERIAL" >>,
      << "CD_CASE", "SCENARIO_ID", "SCENARIO" >>,
      << "CD_CASE", "ASSEMBLY_ID", "ASSEMBLY" >>,
      << "CD_TEMP_GRADIENT", "TEMP_GRADIENT_GROUP_ID", "TEMP_GRADIENT_GROUP" >>,
      << "CD_PORE_PRESSURE", "PORE_PRESSURE_GROUP_ID", "PORE_PRESSURE_GROUP" >>,
      << "CD_FRAC_GRADIENT", "FRAC_GRADIENT_GROUP_ID", "FRAC_GRADIENT_GROUP" >>,
      << "TU_DLS_OVERRIDE", "DLS_OVERRIDE_GROUP_ID", "DLS_OVERRIDE_GROUP" >>,
      << "CD_DEFINITIVE_SURVEY_STATION", "DEF_SURVEY_HEADER_ID", "SURVEY_HEADER" >> }
    \cup UNION { { << tag, "WELL_ID", "WELL" >>, << tag, "WELLBORE_ID", "WELLBORE" >> } :
                 tag \in { "CD_TEMP_GRADIENT_GROUP", "CD_TEMP_GRADIENT",
                           "CD_PORE_PRESSURE_GROUP", "CD_PORE_PRESSURE",
                           "CD_FRAC_GRADIENT_GROUP", "CD_FRAC_GRADIENT",
                           "TU_DLS_OVERRIDE_GROUP", "TU_DLS_OVERRIDE",
                           "CD_DEFINITIVE_SURVEY_HEADER" } }

\* C7: in a returned document every foreign-key attribute of an element a
\* handler created equals an ID registered under the referenced type.
C7_ForeignKeysResolve ==
    \A c \in Calls :
        result[c].status = "ok" =>
            \A i \in 1..Len(Returned(c)) : \A fk \in ForeignKeys :
                (/\ Returned(c)[i].tag = fk[1]
                 /\ ~ FromTemplate(Returned(c)[i])
                 /\ ElemHas(Returned(c)[i], fk[2]))
                => ElemGet(Returned(c)[i], fk[2])
                      \in Registered(generator.id_registry, fk[3])

\* C8: after a successful generation the document holds exactly one
\* CD_SCENARIO element, however many the template held.
C8_ExactlyOneScenario ==
    \A c \in Calls :
        result[c].status = "ok" => Len(FindAll(Returned(c), "CD_SCENARIO")) = 1

\* the assemblies of the payload of call c, with the IDs written into them
AssembliesOf(c) ==
    DictGet(DictGet(payload[c], "casingSchematics", EmptyDict), "assemblies", << >>)

\* C9: after a generation the document holds one CD_CASE for every assembly
\* of the payload, in the order of the assemblies: the n-th has
\* SEQUENCE_NO n-1, the Scenario's SCENARIO_ID, the n-th assembly's
\* ASSEMBLY_ID, and the assembly's name as CASE_NAME when it has a name.
C9_OneCasePerAssembly ==
    \A c \in Calls :
        result[c].status = "ok" =>
            LET cases == FindAll(Returned(c), "CD_CASE")
                scenarios == FindAll(Returned(c), "CD_SCENARIO")
            IN  /\ Len(cases) = Len(AssembliesOf(c))
                /\ \A n \in 1..Len(cases) :
                      /\ ElemGet(cases[n], "SEQUENCE_NO") = StrFloat(n - 1)
                      /\ Len(scenarios) = 1
                      /\ ElemGet(cases[n], "SCENARIO_ID")
                            = ElemGet(scenarios[1], "SCENARIO_ID")
                      /\ ElemGet(cases[n], "ASSEMBLY_ID")
                            = DictGet(AssembliesOf(c)[n], "assemblyId", None)
                      /\ DictHas(AssembliesOf(c)[n], "assemblyName") =>
                            ElemGet(cases[n], "CASE_NAME")
                               = DictGet(AssembliesOf(c)[n], "assemblyName", None)

\* the group references of the Scenario: the attribute, and the element
\* that holds the group
GroupReferences ==
    { << "TEMP_GRADIENT_GROUP_ID", "CD_TEMP_GRADIENT_GROUP" >>,
      << "PORE_PRESSURE_GROUP_ID", "CD_PORE_PRESSURE_GROUP" >>,
      << "FRAC_GRADIENT_GROUP_ID", "CD_FRAC_GRADIENT_GROUP" >>,
      << "DEF_SURVEY_HEADER_ID", "CD_DEFINITIVE_SURVEY_HEADER" >>,
      << "DATUM_ID", "CD_DATUM" >> }

\* C10: the Scenario carries a group reference exactly for the groups whose
\* element this generation created, with that element's ID; for a group
\* not created the attribute is absent.
C10_ScenarioGroupReferences ==
    \A c \in Calls :
        result[c].status = "ok" =>
            \A i \in 1..Len(Returned(c)) : \A ref \in GroupReferences :
                Returned(c)[i].tag = "CD_SCENARIO" =>
                    (ElemHas(Returned(c)[i], ref[1])
                     <=> \E j \in 1..Len(Returned(c)) :
                            /\ Returned(c)[j].tag = ref[2]
                            /\ ElemGet(Returned(c)[j], ref[1])
                                  = ElemGet(Returned(c)[i], ref[1]))

(***************************************************************************)
(* Two requests in flight on the generator the controller shares.          *)
(***************************************************************************)
ConcWorkload ==
    [payloads |-> ClientPayloadNumbers, templates |-> { 2 },
     libraries |-> { 1 }, seeds |-> { 0 }]

InitConc == Started(ConcWorkload)

\* the threads of the server take their steps in any order
NextConc == \E c \in Calls : Step(c)

SpecConc == InitConc /\ [][NextConc]_vars

\* the ID the payload of call c carries for its well or wellbore
OwnId(c, entity, id_key) ==
    DictGet(DictGet(DictGet(payload[c], "projectInfo", EmptyDict), entity, EmptyDict),
            id_key, None)

\* C4: when two calls interleave on the shared generator, the document a
\* call returns holds no ID of the other call: every WELL_ID and
\* WELLBORE_ID its handlers wrote is the one of the call's own payload.
C4_CallsIsolated ==
    \A c \in Calls :
        result[c].status = "ok" =>
            \A i \in 1..Len(Returned(c)) :
                ~ FromTemplate(Returned(c)[i]) =>
                    /\ ElemHas(Returned(c)[i], "WELL_ID") =>
                          ElemGet(Returned(c)[i], "WELL_ID") = OwnId(c, "well", "wellId")
                    /\ ElemHas(Returned(c)[i], "WELLBORE_ID") =>
                          ElemGet(Returned(c)[i], "WELLBORE_ID")
                             = OwnId(c, "wellbore", "wellboreId")

(***************************************************************************)
(* XMLGenerator.generate_xml of services/xml_generator.py, the method the  *)
(* controller calls on the generator it built at import                    *)
(* (controllers/xml_controller.py 17 and 109): one action per statement of *)
(* its body.  The requests are served one after the other.                 *)
(***************************************************************************)
\* the payloads of two clients, each with its own well and wellbore; a
\* wellbore without a well; a payload with every section
ClassPayloadNumbers ==
    { << 2, 2, 1, 1 >>, << 9, 2, 1, 1 >>, << 9, 3, 1, 1 >>, << 7, 2, 1, 1 >>,
      << 2, 11, 6, 2 >>, << 1, 1, 2, 3 >> }

ClassWorkload ==
    [payloads |-> ClassPayloadNumbers, templates |-> 1..Len(Templates),
     libraries |-> { 1 }, seeds |-> 0..(NumSeeds - 1)]

InitClass == Started(ClassWorkload)

Raise(c, message) ==
    /\ result' = [result EXCEPT ![c] =
          [status |-> "error", xml |-> NoXml, message |-> message]]
    /\ Goto(c, "raised")

\* xml_generator.py 43-49: the template is loaded and searched for the
\* export element
ClassLoad(c) ==
    /\ pc[c] = "idle"
    /\ ncalls < MaxCalls
    /\ ncalls' = ncalls + 1
    /\ \E t \in workload.templates :
          IF Truthy(ExportBelow(Templates[t]))
          THEN /\ doc' = [doc EXCEPT ![c] =
                    Doc(Templates[t].tag,
                        SelectSeq(Templates[t].children, LAMBDA e : e.tag # "export"),
                        ExportBelow(Templates[t])[1].children)]
               /\ result' = result
               /\ Goto(c, "_prepare_ids")
          ELSE /\ doc' = doc
               /\ Raise(c, << "Template XML does not contain an export element" >>)
    /\ UNCHANGED << generator, rng, payload, workload, apiVars >>

\* xml_generator.py 52
ClassPrepareIds(c) ==
    /\ pc[c] = "_prepare_ids"
    /\ \E n \in workload.payloads, seed \in workload.seeds :
          Prepared(c, _prepare_ids(generator.id_registry, seed, PayloadOf(n)))
    /\ Goto(c, "_clear_template_elements")
    /\ UNCHANGED << doc, result, ncalls, workload, apiVars >>

\* xml_generator.py 55
ClassClear(c) ==
    /\ pc[c] = "_clear_template_elements"
    /\ SetExport(c, _clear_template_elements(doc[c].export, payload[c]))
    /\ Goto(c, "_update_project_info")
    /\ UNCHANGED << generator, rng, payload, result, ncalls, workload, apiVars >>

\* xml_generator.py 58
ClassProjectInfo(c) ==
    /\ pc[c] = "_update_project_info"
    /\ SetExport(c, _update_project_info(doc[c].export,
                                         DictGet(payload[c], "projectInfo", EmptyDict)))
    /\ Goto(c, "_update_formation_inputs")
    /\ UNCHANGED << generator, rng, payload, result, ncalls, workload, apiVars >>

\* what _update_formation_inputs leaves, and the TypeError of
\* element.set(key, None) when it raised
Formed(c, r) ==
    /\ Updated(c, r)
    /\ IF r.raised
       THEN Raise(c, << "Argument must be bytes or unicode, got 'NoneType'" >>)
       ELSE /\ result' = result
            /\ Goto(c, "_update_casing_schematics")

\* xml_generator.py 59
ClassFormation(c) ==
    /\ pc[c] = "_update_formation_inputs"
    /\ Formed(c, _update_formation_inputs(generator.id_registry, rng, doc[c].export,
                    DictGet(payload[c], "formationInputs", EmptyDict)))
    /\ UNCHANGED << payload, ncalls, workload, apiVars >>

\* xml_generator.py 60
ClassCasing(c) ==
    /\ pc[c] = "_update_casing_schematics"
    /\ SetExport(c, _update_casing_schematics(generator.id_registry, doc[c].export,
                       DictGet(payload[c], "casingSchematics", EmptyDict)))
    /\ Goto(c, "_update_dls_overrides")
    /\ UNCHANGED << generator, rng, payload, result, ncalls, workload, apiVars >>

\* xml_generator.py 63-64
ClassDls(c) ==
    /\ pc[c] = "_update_dls_overrides"
    /\ SetExport(c,
          IF DictHas(DictGet(payload[c], "formationInputs", EmptyDict), "dlsOverrideGroup")
          THEN _update_dls_overrides(generator.id_registry, doc[c].export,
                  DictGet(DictGet(payload[c], "formationInputs", EmptyDict),
                          "dlsOverrideGroup", EmptyDict))
          ELSE doc[c].export)
    /\ Goto(c, "_update_survey_header")
    /\ UNCHANGED << generator, rng, payload, result, ncalls, workload, apiVars >>

\* xml_generator.py 67-68
ClassSurvey(c) ==
    /\ pc[c] = "_update_survey_header"
    /\ SetExport(c,
          IF DictHas(DictGet(payload[c], "formationInputs", EmptyDict), "surveyHeader")
          THEN _update_survey_header(generator.id_registry, doc[c].export,
                  DictGet(DictGet(payload[c], "formationInputs", EmptyDict),
                          "surveyHeader", EmptyDict))
          ELSE doc[c].export)
    /\ Goto(c, "_update_datum")
    /\ UNCHANGED << generator, rng, payload, result, ncalls, workload, apiVars >>

\* xml_generator.py 71-72
ClassDatum(c) ==
    /\ pc[c] = "_update_datum"
    /\ SetExport(c, IF DictHas(payload[c], "datum")
                    THEN _update_datum(doc[c].export, DictGet(payload[c], "datum", EmptyDict))
                    ELSE doc[c].export)
    /\ Goto(c, "validate_references")
    /\ UNCHANGED << generator, rng, payload, result, ncalls, workload, apiVars >>

\* xml_generator.py 75-80
ClassValidate(c) ==
    /\ pc[c] = "validate_references"
    /\ IF Truthy(validate_references(generator.id_registry))
       THEN Raise(c, validate_references(generator.id_registry))
       ELSE /\ result' = [result EXCEPT ![c] =
                  [status |-> "ok", xml |-> xml_to_string(doc[c]), message |-> << >>]]
            /\ Goto(c, "returned")
    /\ UNCHANGED << generator, rng, payload, doc, ncalls, workload, apiVars >>

NextClass ==
    \/ ClassLoad(1) \/ ClassPrepareIds(1) \/ ClassClear(1) \/ ClassProjectInfo(1)
    \/ ClassFormation(1) \/ ClassCasing(1) \/ ClassDls(1) \/ ClassSurvey(1)
    \/ ClassDatum(1) \/ ClassValidate(1) \/ Answer(1)

SpecClass == InitClass /\ [][NextClass]_vars

\* the steps of XMLGenerator.generate_xml that read the registry
ClassHandlers ==
    { "_clear_template_elements", "_update_project_info", "_update_formation_inputs",
      "_update_casing_schematics", "_update_dls_overrides", "_update_survey_header",
      "_update_datum", "validate_references" }

\* C3: in any sequence of generate_xml calls on the generator the
\* controller shares, the registry the handlers of a call read holds the
\* wells and wellbores of that call only, and no element the call wrote
\* carries the well or wellbore ID of an earlier call.
C3_RegistryPerCall ==
    /\ pc[1] \in ClassHandlers =>
          /\ \A id \in Registered(generator.id_registry, "WELL") :
                id = OwnId(1, "well", "wellId")
          /\ \A id \in Registered(generator.id_registry, "WELLBORE") :
                id = OwnId(1, "wellbore", "wellboreId")
    /\ result[1].status = "ok" =>
          \A i \in 1..Len(Returned(1)) :
              ~ FromTemplate(Returned(1)[i]) =>
                  /\ ElemHas(Returned(1)[i], "WELL_ID") =>
                        ElemGet(Returned(1)[i], "WELL_ID") = OwnId(1, "well", "wellId")
                  /\ ElemHas(Returned(1)[i], "WELLBORE_ID") =>
                        ElemGet(Returned(1)[i], "WELLBORE_ID")
                           = OwnId(1, "wellbore", "wellboreId")

(***************************************************************************)
(* The order of the rows of a list section.                                *)
(***************************************************************************)
\* the formationInputs of the payload of call c
FormationOf(c) == DictGet(payload[c], "formationInputs", EmptyDict)

\* the rows the payload of call c gives each group, in payload order, with
\* the tag of the elements made of them and the attributes and payload keys
\* of the depth and of a value that tells rows of equal depth apart
ListSections(c) ==
    { [tag |-> "CD_TEMP_GRADIENT", depth_attr |-> "TVD", value_attr |-> "TEMPERATURE",
       depth_key |-> "depth", value_key |-> "temperature",
       rows |-> SelectSeq(DictGet(FormationOf(c), "temperatureProfiles", << >>),
                          LAMBDA p : DictGet(p, "depth", 0) > 0)],
      [tag |-> "CD_PORE_PRESSURE", depth_attr |-> "TVD", value_attr |-> "PORE_PRESSURE",
       depth_key |-> "depth", value_key |-> "pressure",
       rows |-> OfType(DictGet(FormationOf(c), "pressureProfiles", << >>), "Pore")],
      [tag |-> "CD_FRAC_GRADIENT", depth_attr |-> "TVD",
       value_attr |-> "FRAC_GRADIENT_PRESSURE",
       depth_key |-> "depth", value_key |-> "pressure",
       rows |-> OfType(DictGet(FormationOf(c), "pressureProfiles", << >>), "Frac")],
      [tag |-> "TU_DLS_OVERRIDE", depth_attr |-> "MD_TOP", value_attr |-> "DOGLEG_SEVERITY",
       depth_key |-> "topDepth", value_key |-> "doglegSeverity",
       rows |-> DictGet(DictGet(FormationOf(c), "dlsOverrideGroup", EmptyDict),
                        "overrides", << >>)],
      [tag |-> "CD_DEFINITIVE_SURVEY_STATION", depth_attr |-> "MD",
       value_attr |-> "AZIMUTH", depth_key |-> "md", value_key |-> "azimuth",
       rows |-> DictGet(DictGet(FormationOf(c), "surveyHeader", EmptyDict),
                        "stations", << >>)] }

\* the elements with the tag that the call made, in document order
Created(c, tag) ==
    SelectSeq(Returned(c), LAMBDA e : e.tag = tag /\ ~ FromTemplate(e))

\* depth and value of the elements, and of the rows as str() writes them
ElemPairs(elements, s) ==
    [i \in 1..Len(elements) |->
        << ElemGet(elements[i], s.depth_attr), ElemGet(elements[i], s.value_attr) >>]
RowPairs(rows, s) ==
    [i \in 1..Len(rows) |->
        << StrFloat(DictGet(rows[i], s.depth_key, 0)),
           StrFloat(DictGet(rows[i], s.value_key, 0)) >>]

\* C11: in a returned document the elements made for a group of two or more
\* rows stand by descending depth (MD for stations, top depth for DLS
\* overrides), rows of equal depth in the order the payload gave them.
C11_RowsByDescendingDepth ==
    result[1].status = "ok" =>
        \A s \in ListSections(1) :
            (Len(s.rows) >= 2 /\ Len(Created(1, s.tag)) = Len(s.rows)) =>
                ElemPairs(Created(1, s.tag), s)
                    = RowPairs(SortedDesc(s.rows, s.depth_key), s)

(***************************************************************************)
(* A template-mode request: XMLTemplateEditor(template_path), then         *)
(* update_from_payload(payload) statement by statement, then               *)
(* get_xml_string() (controllers/xml_controller.py 92-106).  Every request *)
(* has an editor of its own; the draws of generate_random_id come from the *)
(* interpreter-wide random stream.  add_binary_data is left at its default *)
(* False.  The section handlers catch what they raise and the payload has  *)
(* passed PayloadSchema, so no exception reaches the except clause of      *)
(* update_from_payload (template_editor.py 311-313).                       *)
(***************************************************************************)
EditWorkload ==
    [payloads |-> EditPayloadNumbers, templates |-> 1..Len(EditTemplates),
     libraries |-> { 1 }, seeds |-> 0..(NumSeeds - 1)]

InitEdit == Started(EditWorkload)

\* template_editor.py 86-100 get_xml_string: ET.tostring writes the
\* declaration with single quotes, and the replace puts the two header
\* lines in its place
get_xml_string(d) ==
    LET xml_string == << "<?xml version='1.0' encoding='utf-8'?>" >>
        Replaced(line) ==
            IF line = "<?xml version='1.0' encoding='utf-8'?>"
            THEN << "<?xml version=\"1.0\" standalone=\"no\"?>", DataServices >>
            ELSE << line >>
    IN  [preamble |-> Replaced(xml_string[1]),
         root |-> d.root, others |-> d.others, export |-> d.export]

\* the root of the editor of call c, and the IDs update_from_payload took
\* from it when it began
RootOf(c) == doc[c].export
EntityIds(c) == doc[c].entity_ids

\* the editor and the random stream of call c as a handler leaves them
Edited(c, r) ==
    /\ SetExport(c, r.root)
    /\ rng' = r.rng

\* template_editor.py 30-66 and 234: the template is loaded and its IDs are
\* extracted
EditLoad(c) ==
    /\ pc[c] = "idle"
    /\ \E n \in workload.payloads, t \in workload.templates, seed \in workload.seeds :
          /\ payload' = [payload EXCEPT ![c] = EditPayloadOf(n)]
          /\ doc' = [doc EXCEPT ![c] =
                [root |-> EditTemplates[t].tag, others |-> << >>,
                 export |-> EditTemplates[t].children,
                 entity_ids |-> extract_entity_ids(EditTemplates[t].children)]]
          /\ rng' = seed
    /\ Goto(c, "edit_project_info")
    /\ UNCHANGED << generator, result, ncalls, workload, apiVars >>

\* template_editor.py 237
EditProjectInfo(c) ==
    /\ pc[c] = "edit_project_info"
    /\ SetExport(c, edit_project_info(RootOf(c),
                       DictGet(payload[c], "projectInfo", EmptyDict), EntityIds(c)))
    /\ Goto(c, "edit_temperature")
    /\ UNCHANGED << generator, rng, payload, result, ncalls, workload, apiVars >>

\* template_editor.py 246-253: what update_temperature_profiles returns for
\* call c; the handler is not called when the condition of line 246 fails
TemperatureRequested(c) ==
    /\ DictHas(FormationOf(c), "temperatureProfiles")
    /\ Given(EntityIds(c).well_id) /\ Given(EntityIds(c).wellbore_id)
    /\ Given(EntityIds(c).temp_gradient_group_id)

TemperatureResult(c) ==
    update_temperature_profiles(RootOf(c), rng, EntityIds(c).well_id, EntityIds(c).wellbore_id,
        EntityIds(c).temp_gradient_group_id,
        DictGet(FormationOf(c), "temperatureProfiles", << >>))

EditTemperature(c) ==
    /\ pc[c] = "edit_temperature"
    /\ IF TemperatureRequested(c) THEN Edited(c, TemperatureResult(c))
       ELSE UNCHANGED << doc, rng >>
    /\ Goto(c, "edit_pressure")
    /\ UNCHANGED << generator, payload, result, ncalls, workload, apiVars >>

\* template_editor.py 256-264
PressureRequested(c) ==
    /\ DictHas(FormationOf(c), "pressureProfiles")
    /\ Given(EntityIds(c).well_id) /\ Given(EntityIds(c).wellbore_id)
    /\ Given(EntityIds(c).pore_pressure_group_id)
    /\ Given(EntityIds(c).frac_gradient_group_id)

PressureResult(c) ==
    update_pressure_profiles(RootOf(c), rng, EntityIds(c).well_id, EntityIds(c).wellbore_id,
        EntityIds(c).pore_pressure_group_id, EntityIds(c).frac_gradient_group_id,
        DictGet(FormationOf(c), "pressureProfiles", << >>))

EditPressure(c) ==
    /\ pc[c] = "edit_pressure"
    /\ IF PressureRequested(c) THEN Edited(c, PressureResult(c))
       ELSE UNCHANGED << doc, rng >>
    /\ Goto(c, "edit_dls")
    /\ UNCHANGED << generator, payload, result, ncalls, workload, apiVars >>

\* template_editor.py 267-276
DlsRequested(c) ==
    /\ DictHas(FormationOf(c), "dlsOverrideGroup")
    /\ DictHas(DictGet(FormationOf(c), "dlsOverrideGroup", EmptyDict), "overrides")
    /\ Given(EntityIds(c).well_id) /\ Given(EntityIds(c).wellbore_id)
    /\ Given(EntityIds(c).scenario_id) /\ Given(EntityIds(c).dls_override_group_id)

DlsResult(c) ==
    edit_dls_overrides(RootOf(c), rng, EntityIds(c).well_id, EntityIds(c).wellbore_id,
        EntityIds(c).scenario_id, EntityIds(c).dls_override_group_id,
        DictGet(DictGet(FormationOf(c), "dlsOverrideGroup", EmptyDict),
                "overrides", << >>))

EditDls(c) ==
    /\ pc[c] = "edit_dls"
    /\ IF DlsRequested(c) THEN Edited(c, DlsResult(c))
       ELSE UNCHANGED << doc, rng >>
    /\ Goto(c, "edit_survey")
    /\ UNCHANGED << generator, payload, result, ncalls, workload, apiVars >>

\* template_editor.py 279-287
SurveyRequested(c) ==
    /\ DictHas(FormationOf(c), "surveyHeader")
    /\ DictHas(DictGet(FormationOf(c), "surveyHeader", EmptyDict), "stations")
    /\ Given(EntityIds(c).well_id) /\ Given(EntityIds(c).wellbore_id)
    /\ Given(EntityIds(c).survey_header_id)

SurveyResult(c) ==
    update_survey_stations(RootOf(c), rng, EntityIds(c).well_id, EntityIds(c).wellbore_id,
        EntityIds(c).survey_header_id,
        DictGet(DictGet(FormationOf(c), "surveyHeader", EmptyDict), "stations", << >>))

EditSurvey(c) ==
    /\ pc[c] = "edit_survey"
    /\ IF SurveyRequested(c) THEN Edited(c, SurveyResult(c))
       ELSE UNCHANGED << doc, rng >>
    /\ Goto(c, "edit_datum")
    /\ UNCHANGED << generator, payload, result, ncalls, workload, apiVars >>

\* template_editor.py 290
EditDatum(c) ==
    /\ pc[c] = "edit_datum"
    /\ SetExport(c, edit_datum(RootOf(c), DictGet(payload[c], "datum", EmptyDict),
                               EntityIds(c)))
    /\ Goto(c, "edit_casing")
    /\ UNCHANGED << generator, rng, payload, result, ncalls, workload, apiVars >>

\* template_editor.py 293-299
CasingRequested(c) ==
    /\ DictHas(DictGet(payload[c], "casingSchematics", EmptyDict), "assemblies")
    /\ Given(EntityIds(c).well_id) /\ Given(EntityIds(c).wellbore_id)

CasingResult(c) ==
    update_casing_assemblies(RootOf(c), rng, EntityIds(c).well_id, EntityIds(c).wellbore_id,
        DictGet(DictGet(payload[c], "casingSchematics", EmptyDict), "assemblies", << >>))

EditCasing(c) ==
    /\ pc[c] = "edit_casing"
    /\ IF CasingRequested(c) THEN Edited(c, CasingResult(c))
       ELSE UNCHANGED << doc, rng >>
    /\ Goto(c, "edit_return")
    /\ UNCHANGED << generator, payload, result, ncalls, workload, apiVars >>

\* template_editor.py 309: return True, whatever the handlers returned; the
\* controller then takes the document (xml_controller.py 96-106)
EditReturn(c) ==
    /\ pc[c] = "edit_return"
    /\ result' = [result EXCEPT ![c] =
          [status |-> "ok", xml |-> get_xml_string(doc[c]), message |-> << >>]]
    /\ Goto(c, "returned")
    /\ UNCHANGED << generator, rng, payload, doc, ncalls, workload, apiVars >>

NextEdit ==
    \/ EditLoad(1) \/ EditProjectInfo(1) \/ EditTemperature(1) \/ EditPressure(1)
    \/ EditDls(1) \/ EditSurvey(1) \/ EditDatum(1) \/ EditCasing(1)
    \/ EditReturn(1) \/ Answer(1)

SpecEdit == InitEdit /\ [][NextEdit]_vars

(***************************************************************************)
(* Properties of a template-mode request.                                  *)
(***************************************************************************)
\* the statements of update_from_payload in turn, by the label of the call
\* that is about to execute them
EditSteps ==
    << "edit_project_info", "edit_temperature", "edit_pressure", "edit_dls",
       "edit_survey", "edit_datum", "edit_casing", "edit_return", "returned" >>

\* call c is a template-mode request under way
Editing(c) == \E i \in 1..Len(EditSteps) : EditSteps[i] = pc[c]

\* call c has executed the statement with the label
Past(c, label) ==
    \E i, j \in 1..Len(EditSteps) :
        EditSteps[i] = label /\ EditSteps[j] = pc[c] /\ i < j

\* the list sections of the editor: the statement that updates the group,
\* whether the payload and the template make update_from_payload call the
\* handler, the group element and its members
EditSections(c) ==
    { [step |-> "edit_temperature", requested |-> TemperatureRequested(c),
       group_tag |-> "CD_TEMP_GRADIENT_GROUP", group_key |-> "TEMP_GRADIENT_GROUP_ID",
       group_id |-> EntityIds(c).temp_gradient_group_id,
       member_tag |-> "CD_TEMP_GRADIENT"],
      [step |-> "edit_pressure", requested |-> PressureRequested(c),
       group_tag |-> "CD_PORE_PRESSURE_GROUP", group_key |-> "PORE_PRESSURE_GROUP_ID",
       group_id |-> EntityIds(c).pore_pressure_group_id,
       member_tag |-> "CD_PORE_PRESSURE"],
      [step |-> "edit_pressure", requested |-> PressureRequested(c),
       group_tag |-> "CD_FRAC_GRADIENT_GROUP", group_key |-> "FRAC_GRADIENT_GROUP_ID",
       group_id |-> EntityIds(c).frac_gradient_group_id,
       member_tag |-> "CD_FRAC_GRADIENT"],
      [step |-> "edit_dls", requested |-> DlsRequested(c),
       group_tag |-> "TU_DLS_OVERRIDE_GROUP", group_key |-> "DLS_OVERRIDE_GROUP_ID",
       group_id |-> EntityIds(c).dls_override_group_id,
       member_tag |-> "TU_DLS_OVERRIDE"],
      [step |-> "edit_survey", requested |-> SurveyRequested(c),
       group_tag |-> "CD_DEFINITIVE_SURVEY_HEADER", group_key |-> "DEF_SURVEY_HEADER_ID",
       group_id |-> EntityIds(c).survey_header_id,
       member_tag |-> "CD_DEFINITIVE_SURVEY_STATION"] }

\* the places, counted from 1, of the members of the group of section s
Members(root, s) ==
    { i \in 1..Len(root) : Matches(root[i], s.member_tag, s.group_key, s.group_id) }

\* the place, counted from 1, of the group element of section s; 0 if none
Anchor(root, s) == find_group_element(root, s.group_tag, s.group_key, s.group_id) + 1

\* C12: once the handler of a list section has run, the members it made
\* for the group stand at the places right behind the group element, one
\* after the other with nothing between: also the pore points and the frac
\* points when one call updates both groups.
C12_MembersFollowAnchor ==
    Editing(1) =>
        \A s \in EditSections(1) :
            (Past(1, s.step) /\ s.requested /\ Anchor(RootOf(1), s) > 0) =>
                Members(RootOf(1), s)
                    = (Anchor(RootOf(1), s) + 1)
                      ..(Anchor(RootOf(1), s) + Cardinality(Members(RootOf(1), s)))

\* a call that has updated both pressure groups, each with two or more
\* points, the frac group element standing right behind the pore group
\* element in the template
C12_Witness ==
    /\ Past(1, "edit_pressure") /\ PressureRequested(1)
    /\ \A s \in EditSections(1) :
          s.step = "edit_pressure" =>
              /\ Anchor(RootOf(1), s) > 0
              /\ Cardinality(Members(RootOf(1), s)) >= 2

\* an element one of the editor's templates held
EditFromTemplate(e) ==
    \E t \in 1..Len(EditTemplates) : e \in SeqToSet(EditTemplates[t].children)

\* the temperature rows of the payload of call c
TemperatureRows(c) == DictGet(FormationOf(c), "temperatureProfiles", << >>)

\* depth and temperature, as str() writes them, of the rows below the
\* surface, and of the CD_TEMP_GRADIENT elements among the elements
DeepRowPairs(rows) ==
    LET deep == SelectSeq(rows, LAMBDA p : DictGet(p, "depth", 0) > 0)
    IN  [i \in 1..Len(deep) |->
            << StrFloat(DictGet(deep[i], "depth", 0)),
               StrFloat(DictGet(deep[i], "temperature", 0)) >>]
GradientPairs(elements) ==
    LET made == SelectSeq(elements, LAMBDA e : e.tag = "CD_TEMP_GRADIENT")
    IN  [i \in 1..Len(made) |->
            << ElemGet(made[i], "TVD"), ElemGet(made[i], "TEMPERATURE") >>]

\* as many elements as rows for every depth and temperature
SamePairs(a, b) ==
    \A p \in SeqToSet(a) \cup SeqToSet(b) :
        Cardinality({ i \in 1..Len(a) : a[i] = p })
            = Cardinality({ i \in 1..Len(b) : b[i] = p })

\* the temperature rows have become elements: one CD_TEMP_GRADIENT among
\* the elements made for each row below the surface and none for a row at
\* depth 0, and the temperature of the first row at depth 0 on a
\* CD_TEMP_GRADIENT_GROUP of the document
TemperatureApplied(rows, document, made) ==
    /\ SamePairs(GradientPairs(made), DeepRowPairs(rows))
    /\ Truthy(SurfaceTemps(rows)) =>
          \E i \in 1..Len(document) :
              /\ document[i].tag = "CD_TEMP_GRADIENT_GROUP"
              /\ ElemGet(document[i], "SURFACE_AMBIENT_TEMP")
                    = StrFloat(SurfaceTemps(rows)[1])

\* what the editor of call c has added to its template
EditMade(c) == SelectSeq(RootOf(c), LAMBDA e : ~ EditFromTemplate(e))

\* the temperature section of the editor
TemperatureSection(c) ==
    CHOOSE s \in EditSections(c) : s.step = "edit_temperature"

C13_Generation ==
    (result[1].status = "ok" /\ DictHas(FormationOf(1), "temperatureProfiles")) =>
        TemperatureApplied(TemperatureRows(1), Returned(1),
            SelectSeq(Returned(1), LAMBDA e : ~ FromTemplate(e)))

(***************************************************************************)
(* The material of a component.                                            *)
(***************************************************************************)
\* generation calls whose payloads vary the materials and the components
MaterialWorkload ==
    [payloads |-> { 1 } \X { 1 }
                  \X ((Len(BasicSchematics) + 1)..Len(CasingSchematics)) \X { 1, 2 },
     templates |-> 1..Len(Templates), libraries |-> { 1 },
     seeds |-> 0..(NumSeeds - 1)]

InitMaterial == Started(MaterialWorkload)

SpecMaterial == InitMaterial /\ [][Next]_vars

\* the materials and the components of the payload of call c, with the IDs
\* prepare_ids has written into them
MaterialsOf(c) ==
    DictGet(DictGet(payload[c], "casingSchematics", EmptyDict), "materials", << >>)
ComponentsOf(c) ==
    LET assemblies == DictGet(DictGet(payload[c], "casingSchematics", EmptyDict),
                              "assemblies", << >>)
    IN  UNION { SeqToSet(DictGet(assemblies[a], "components", << >>)) :
                a \in 1..Len(assemblies) }

\* the IDs of the materials that carry the value under the key
MaterialIds(materials, key, value) ==
    { DictGet(materials[i], "materialId", None) :
        i \in { j \in 1..Len(materials) :
                   DictHas(materials[j], key) /\ DictGet(materials[j], key, None) = value } }

\* id is what the precedence gives the component: its own materialId; else
\* the ID of a material of its materialName; else the ID of a material of
\* its grade; else the ID of the first material; else the empty string
Resolves(id, component, materials) ==
    LET named  == IF DictHas(component, "materialName")
                  THEN MaterialIds(materials, "materialName",
                                   DictGet(component, "materialName", None))
                  ELSE {}
        graded == IF DictHas(component, "grade")
                  THEN MaterialIds(materials, "grade", DictGet(component, "grade", None))
                  ELSE {}
    IN  IF DictHas(component, "materialId")
        THEN id = DictGet(component, "materialId", None)
        ELSE IF named # {} THEN id \in named
        ELSE IF graded # {} THEN id \in graded
        ELSE IF Truthy(materials) THEN id = DictGet(materials[1], "materialId", None)
        ELSE id = ""

\* the CD_ASSEMBLY_COMP elements the call has made
ComponentElems(c) ==
    SelectSeq(doc[c].export, LAMBDA e : e.tag = "CD_ASSEMBLY_COMP" /\ ~ FromTemplate(e))

\* every component element of call c carries the MATERIAL_ID the
\* precedence gives its component
MaterialsResolve(c) ==
    \A i \in 1..Len(ComponentElems(c)) :
        \A component \in ComponentsOf(c) :
            DictGet(component, "componentId", None)
                = ElemGet(ComponentElems(c)[i], "ASSEMBLY_COMP_ID")
            => Resolves(ElemGet(ComponentElems(c)[i], "MATERIAL_ID"),
                        component, MaterialsOf(c))

\* C14: the MATERIAL_ID of a component element is the component's explicit
\* materialId; else the ID of the defined material of its materialName;
\* else the ID of the defined material of its grade; else the ID of the
\* first defined material; else the empty string.
C14_MaterialPrecedence == MaterialsResolve(1)

\* no two materials of the payload of call c have the same name
DistinctNames(c) ==
    \A i, j \in 1..Len(MaterialsOf(c)) :
        DictGet(MaterialsOf(c)[i], "materialName", None)
            = DictGet(MaterialsOf(c)[j], "materialName", None) => i = j

\* C14 for payloads whose materials have names of their own
C14_DistinctNames == DistinctNames(1) => MaterialsResolve(1)

(***************************************************************************)
(* The header of the returned string.                                      *)
(***************************************************************************)
\* C15: the string a successful generation returns begins with the line
\* <?xml version="1.0" standalone="no"?>, then the DataServices
\* processing instruction, and holds no other XML declaration and no other
\* DataServices instruction.
C15_FixedPreamble ==
    result[1].status = "ok" =>
        result[1].xml.preamble
            = << "<?xml version=\"1.0\" standalone=\"no\"?>", DataServices >>

(***************************************************************************)
(* The purge.                                                              *)
(***************************************************************************)
\* generation calls on the templates that hold elements of every section
PurgeWorkload ==
    [payloads |-> PayloadNumbers, templates |-> 1..Len(PurgeTemplates),
     libraries |-> { 1 }, seeds |-> { 0 }]

InitPurge == Started(PurgeWorkload)

\* core.py 36-129, on one of these templates
PurgeLoad(c) ==
    /\ pc[c] = "idle"
    /\ \E t \in workload.templates :
          doc' = [doc EXCEPT ![c] =
                    [LoadTemplate(PurgeTemplates[t]) EXCEPT !.export = FixedSections(@)]]
    /\ Goto(c, "prepare_ids")
    /\ UNCHANGED << generator, rng, payload, result, ncalls, workload, apiVars >>

NextPurge ==
    \/ PurgeLoad(1) \/ PrepareIds(1) \/ Clear(1) \/ ProjectInfo(1) \/ Scenario(1)
    \/ Dls(1) \/ Casing(1) \/ Survey(1) \/ Formation(1) \/ Datum(1)
    \/ CaseElements(1) \/ Validate(1) \/ Finish(1) \/ Answer(1)

SpecPurge == InitPurge /\ [][NextPurge]_vars

\* the sections of a payload, by the keys that lead to them, and the tags
\* of the elements of each
PurgedSections ==
    { << << "projectInfo", "site" >>, { "CD_SITE" } >>,
      << << "projectInfo", "well" >>, { "CD_WELL" } >>,
      << << "projectInfo", "wellbore" >>, { "CD_WELLBORE" } >>,
      << << "formationInputs", "temperatureProfiles" >>,
         { "CD_TEMP_GRADIENT_GROUP", "CD_TEMP_GRADIENT", "CD_TEMPERATURE" } >>,
      << << "formationInputs", "pressureProfiles" >>,
         { "CD_PORE_PRESSURE_GROUP", "CD_PORE_PRESSURE", "CD_FRAC_GRADIENT_GROUP",
           "CD_FRAC_GRADIENT", "CD_FRAC_PRESSURE", "CD_HYDROSTATIC_PRESSURE" } >>,
      << << "formationInputs", "dlsOverrideGroup" >>,
         { "TU_DLS_OVERRIDE_GROUP", "TU_DLS_OVERRIDE" } >>,
      << << "formationInputs", "surveyHeader" >>,
         { "CD_DEFINITIVE_SURVEY_HEADER", "CD_DEFINITIVE_SURVEY_STATION" } >>,
      << << "casingSchematics", "materials" >>, { "CD_MATERIAL" } >>,
      << << "casingSchematics", "assemblies" >>, { "CD_ASSEMBLY", "CD_ASSEMBLY_COMP" } >>,
      << << "datum" >>, { "CD_DATUM" } >> }

\* the payload supplies the section the keys lead to
Supplies(p, keys) ==
    /\ DictHas(p, keys[1])
    /\ Len(keys) = 2 => DictHas(DictGet(p, keys[1], EmptyDict), keys[2])

\* the places of the container whose elements the purge is to remove
ToPurge(export, p) ==
    { i \in 1..Len(export) :
        \/ export[i].tag \in { "CD_SCENARIO", "CD_CASE", "CD_WEQP_PACKER", "BINARY_DATA" }
        \/ \E s \in PurgedSections : Supplies(p, s[1]) /\ export[i].tag \in s[2] }

\* the container without the elements at the places
RECURSIVE Without(_, _, _)
Without(export, places, i) ==
    IF i > Len(export) THEN << >>
    ELSE (IF i \in places THEN << >> ELSE << export[i] >>)
         \o Without(export, places, i + 1)

\* C16: the purge takes out of the container the elements of the sections
\* whose key the payload supplies and every CD_SCENARIO, CD_CASE,
\* CD_WEQP_PACKER and BINARY_DATA, whatever the payload; all other elements
\* stay as they are, in the order they had.
C16_PurgeExact ==
    [][(pc[1] = "clear" /\ pc'[1] # "clear") =>
          doc'[1].export
             = Without(doc[1].export, ToPurge(doc[1].export, payload[1]), 1)]_vars

\* a purge that has taken the temperature and survey elements, the
\* scenarios and the cases out of the full template, and left the datum,
\* the units between them and the site below TOPLEVEL
C16_Witness ==
    /\ pc[1] = "project_info"
    /\ Supplies(payload[1], << "formationInputs", "temperatureProfiles" >>)
    /\ Supplies(payload[1], << "formationInputs", "surveyHeader" >>)
    /\ ~ Supplies(payload[1], << "datum" >>)
    /\ LET tags == [i \in 1..Len(doc[1].export) |-> doc[1].export[i].tag]
       IN  /\ SeqToSet(tags) \cap { "CD_TEMP_GRADIENT", "CD_DEFINITIVE_SURVEY_STATION",
                                     "CD_SCENARIO", "CD_CASE" } = {}
           /\ "CD_DATUM" \in SeqToSet(tags)
           /\ Cardinality({ i \in 1..Len(tags) : tags[i] = "CD_UNIT" }) = 2
           /\ \E i \in 1..Len(tags) :
                 /\ tags[i] = "TOPLEVEL"
                 /\ Len(doc[1].export[i].children) = 1

(***************************************************************************)
(* Scenarios and cases in template mode.                                   *)
(***************************************************************************)
\* the CD_SCENARIO and CD_CASE elements among the elements, by their IDs
ScenarioAndCaseIds(elems) ==
    LET own == SelectSeq(elems, LAMBDA e : e.tag \in { "CD_SCENARIO", "CD_CASE" })
    IN  [i \in 1..Len(own) |->
           << own[i].tag,
              DictGet(own[i].attrs,
                      IF own[i].tag = "CD_CASE" THEN "CASE_ID" ELSE "SCENARIO_ID",
                      None) >>]

\* C17: no step of a template-mode update adds a CD_SCENARIO or a CD_CASE
\* element; the Scenario and Case elements of the document stay those the
\* template held.
C17_NoNewScenarioOrCase ==
    [][(Editing(1) /\ pc[1] # "returned") =>
          ScenarioAndCaseIds(doc'[1].export) = ScenarioAndCaseIds(doc[1].export)]_vars

(***************************************************************************)
(* Failure of a handler in template mode.                                  *)
(***************************************************************************)
\* a handler update_from_payload called for call c returned False: the
\* list handlers do so when the document lacks the group element, and no
\* handler adds or removes a group element, so that they return on the
\* document of a later statement what they returned when they ran
HandlerFailed(c) ==
    \/ TemperatureRequested(c) /\ ~ TemperatureResult(c).ok
    \/ PressureRequested(c) /\ ~ PressureResult(c).ok
    \/ DlsRequested(c) /\ ~ DlsResult(c).ok
    \/ SurveyRequested(c) /\ ~ SurveyResult(c).ok
    \/ CasingRequested(c) /\ ~ CasingResult(c).ok

\* C18: a template-mode update in which a section handler failed reports
\* failure and hands no document to its caller.
C18_FailureReported ==
    (pc[1] = "returned" /\ Editing(1) /\ HandlerFailed(1)) =>
        result[1].status # "ok"

(***************************************************************************)
(* IDs the payload brings and IDs the generator makes.                     *)
(***************************************************************************)
\* one generation request per behaviour start: the payload the client sent
\* stays known next to the payload prepare_ids has written into
IdWorkloads ==
    { [payloads |-> { n }, templates |-> 1..Len(Templates), libraries |-> { 1 },
       seeds |-> 0..(NumSeeds - 1)] : n \in 1..Len(IdPayloads) }

InitIds == \E w \in IdWorkloads : Started(w)

\* core.py 132, on one of these payloads
IdsPrepare(c) ==
    /\ pc[c] = "prepare_ids"
    /\ \E n \in workload.payloads, seed \in workload.seeds :
          Prepared(c, prepare_ids(generator.id_registry, seed, IdPayloads[n]))
    /\ Goto(c, "clear")
    /\ UNCHANGED << doc, result, ncalls, workload, apiVars >>

NextIds ==
    \/ Load(1) \/ IdsPrepare(1) \/ Clear(1) \/ ProjectInfo(1) \/ Scenario(1)
    \/ Dls(1) \/ Casing(1) \/ Survey(1) \/ Formation(1) \/ Datum(1)
    \/ CaseElements(1) \/ Validate(1) \/ Finish(1) \/ Answer(1)

SpecIds == InitIds /\ [][NextIds]_vars

\* the payload as the client sent it
SentPayload == IdPayloads[CHOOSE n \in workload.payloads : TRUE]

\* the kinds of entity that may bring an ID: the key of the ID, the element
\* and attribute that carry it, and the type the registry lists it under
EntityKinds ==
    { [kind |-> "site", key |-> "siteId", tag |-> "CD_SITE", attr |-> "SITE_ID",
       type |-> "SITE"],
      [kind |-> "well", key |-> "wellId", tag |-> "CD_WELL", attr |-> "WELL_ID",
       type |-> "WELL"],
      [kind |-> "wellbore", key |-> "wellboreId", tag |-> "CD_WELLBORE",
       attr |-> "WELLBORE_ID", type |-> "WELLBORE"],
      [kind |-> "group", key |-> "groupId", tag |-> "TU_DLS_OVERRIDE_GROUP",
       attr |-> "DLS_OVERRIDE_GROUP_ID", type |-> "DLS_OVERRIDE_GROUP"],
      [kind |-> "override", key |-> "overrideId", tag |-> "TU_DLS_OVERRIDE",
       attr |-> "DLS_OVERRIDE_ID", type |-> "DLS_OVERRIDE"],
      [kind |-> "header", key |-> "headerId", tag |-> "CD_DEFINITIVE_SURVEY_HEADER",
       attr |-> "DEF_SURVEY_HEADER_ID", type |-> "SURVEY_HEADER"],
      [kind |-> "station", key |-> "stationId", tag |-> "CD_DEFINITIVE_SURVEY_STATION",
       attr |-> "DEFINITIVE_SURVEY_ID", type |-> "SURVEY_STATION"],
      [kind |-> "datum", key |-> "datumId", tag |-> "CD_DATUM", attr |-> "DATUM_ID",
       type |-> "DATUM"],
      [kind |-> "material", key |-> "materialId", tag |-> "CD_MATERIAL",
       attr |-> "MATERIAL_ID", type |-> "MATERIAL"],
      [kind |-> "assembly", key |-> "assemblyId", tag |-> "CD_ASSEMBLY",
       attr |-> "ASSEMBLY_ID", type |-> "ASSEMBLY"],
      [kind |-> "component", key |-> "componentId", tag |-> "CD_ASSEMBLY_COMP",
       attr |-> "ASSEMBLY_COMP_ID", type |-> "ASSEMBLY_COMP"] }

\* the dict under the key, as a list of one, or the empty list
One(d, key) == IF DictHas(d, key) THEN << DictGet(d, key, EmptyDict) >> ELSE << >>

RECURSIVE AllComponents(_, _)
AllComponents(assemblies, i) ==
    IF i > Len(assemblies) THEN << >>
    ELSE DictGet(assemblies[i], "components", << >>) \o AllComponents(assemblies, i + 1)

\* the entities of a kind in a payload, in the order the handlers emit them
EntitiesOf(p, kind) ==
    LET project   == DictGet(p, "projectInfo", EmptyDict)
        formation == DictGet(p, "formationInputs", EmptyDict)
        group     == DictGet(formation, "dlsOverrideGroup", EmptyDict)
        header    == DictGet(formation, "surveyHeader", EmptyDict)
        casing    == DictGet(p, "casingSchematics", EmptyDict)
    IN  CASE kind \in { "site", "well", "wellbore" } -> One(project, kind)
          [] kind = "group" -> One(formation, "dlsOverrideGroup")
          [] kind = "override" -> DictGet(group, "overrides", << >>)
          [] kind = "header" -> One(formation, "surveyHeader")
          [] kind = "station" -> DictGet(header, "stations", << >>)
          [] kind = "datum" -> One(p, "datum")
          [] kind = "material" -> DictGet(casing, "materials", << >>)
          [] kind = "assembly" -> DictGet(casing, "assemblies", << >>)
          [] kind = "component" -> AllComponents(DictGet(casing, "assemblies", << >>), 1)

\* the IDs under the key in the entities
IdsIn(entities, key) == [i \in 1..Len(entities) |-> DictGet(entities[i], key, None)]

\* the entities of the kind k: each one sent with an ID has kept it, each
\* one sent without has got an ID of the generator that no other entity of
\* the kind has; the registry lists one ID per entity; and the elements
\* emitted for them carry these IDs, one element per entity
IdsKept(k, sent, prepared, emitted, registered) ==
    LET given == IdsIn(sent, k.key)
        ids   == IdsIn(prepared, k.key)
    IN  /\ Len(prepared) = Len(sent)
        /\ \A i \in 1..Len(sent) :
              IF given[i] # None THEN ids[i] = given[i]
              ELSE /\ ids[i] \in IdAlphabet
                   /\ \A j \in 1..Len(sent) : j # i => ids[j] # ids[i]
        /\ Len(registered) = Len(sent)
        /\ SeqToSet(registered) = SeqToSet(ids)
        /\ IdsIn([i \in 1..Len(emitted) |-> emitted[i].attrs], k.attr) = ids

\* C19: in the document a generation returns, the element emitted for an
\* entity that brought its ID carries that ID, and no ID was generated for
\* it; for an entity that brought none, one ID was generated and its
\* element carries it.
C19_IdsKeptOrGenerated ==
    (pc[1] = "returned" /\ result[1].status = "ok") =>
        \A k \in EntityKinds :
            IdsKept(k, EntitiesOf(SentPayload, k.kind), EntitiesOf(payload[1], k.kind),
                    Created(1, k.tag), IdsOf(generator.id_registry, k.type))

\* a returned document for a payload in which, of the two stations, the two
\* overrides and the two materials, one brought its ID and one did not
C19_Witness ==
    /\ pc[1] = "returned" /\ result[1].status = "ok"
    /\ \A kind \in { "station", "override", "material" } :
          LET given == IdsIn(EntitiesOf(SentPayload, kind),
                             (CHOOSE k \in EntityKinds : k.kind = kind).key)
          IN  /\ Len(given) = 2
              /\ \E i, j \in 1..2 : given[i] = None /\ given[j] # None
    /\ Len(Created(1, "CD_DEFINITIVE_SURVEY_STATION")) = 2
    /\ Len(Created(1, "CD_ASSEMBLY_COMP")) = 3

(***************************************************************************)
(* The same payload object given to generate_xml twice.                    *)
(***************************************************************************)
\* payloads without any ID, with IDs, without a wellbore, with a site only
TwicePayloadNumbers ==
    { << 1, 11, 2, 2 >>, << 2, 11, 3, 3 >>, << 1, 1, 6, 1 >>, << 5, 10, 2, 2 >>,
      << 6, 9, 1, 1 >> }

\* one payload object and one template per behaviour start
TwiceWorkloads ==
    { [payloads |-> { n }, templates |-> { t }, libraries |-> { 1 },
       seeds |-> 0..(NumSeeds - 1)] :
         n \in TwicePayloadNumbers, t \in 1..Len(Templates) }

InitTwice == \E w \in TwiceWorkloads : Started(w)

\* the first call of generate_xml(payload)
First(c) ==
    \/ Load(c) \/ PrepareIds(c) \/ Clear(c) \/ ProjectInfo(c) \/ Scenario(c)
    \/ Dls(c) \/ Casing(c) \/ Survey(c) \/ Formation(c) \/ Datum(c)
    \/ CaseElements(c) \/ Validate(c) \/ Finish(c)

\* core.py 36-129: the second call, once the first has returned
AgainLoad(c) ==
    /\ pc[1] = "returned"
    /\ Load(c)

\* core.py 132 and ids.py 12-13: the second call prepares the IDs of the
\* object the first call has written its IDs into, on a new registry
AgainPrepare(c) ==
    /\ pc[c] = "prepare_ids"
    /\ \E seed \in workload.seeds :
          LET r == prepare_ids(generator.id_registry, seed, payload[1])
          IN  /\ generator' = [generator EXCEPT !.id_registry = r.reg]
              /\ rng' = r.rng
              /\ payload' = [k \in Calls |-> r.payload]
    /\ Goto(c, "clear")
    /\ UNCHANGED << doc, result, ncalls, workload, apiVars >>

Again(c) ==
    \/ AgainLoad(c) \/ AgainPrepare(c) \/ Clear(c) \/ ProjectInfo(c) \/ Scenario(c)
    \/ Dls(c) \/ Casing(c) \/ Survey(c) \/ Formation(c) \/ Datum(c)
    \/ CaseElements(c) \/ Validate(c) \/ Finish(c)

\* the caller has both answers and drops them
TwiceDone ==
    /\ pc[1] = "raised" \/ pc[2] \in { "returned", "raised" }
    /\ pc' = [c \in Calls |-> "idle"]
    /\ payload' = [c \in Calls |-> EmptyDict]
    /\ doc' = [c \in Calls |-> NoDoc]
    /\ result' = [c \in Calls |-> NoResult]
    /\ UNCHANGED << generator, rng, ncalls, workload, apiVars >>

NextTwice == First(1) \/ Again(2) \/ TwiceDone

SpecTwice == InitTwice /\ [][NextTwice]_vars

\* the elements of a document: the children of the export element, each
\* followed by its own children
RECURSIVE Flat(_, _)
Flat(export, i) ==
    IF i > Len(export) THEN << >>
    ELSE << export[i] >> \o export[i].children \o Flat(export, i + 1)

\* the attributes whose value is the ID of an entity
EntityIdAttrs ==
    { "ASSEMBLY_COMP_ID", "ASSEMBLY_ID", "CASE_ID", "DATUM_ID", "DEFINITIVE_SURVEY_ID",
      "DEF_SURVEY_HEADER_ID", "DLS_OVERRIDE_GROUP_ID", "DLS_OVERRIDE_ID",
      "FRAC_GRADIENT_GROUP_ID", "FRAC_GRADIENT_ID", "MATERIAL_ID",
      "ORIGINAL_TUBULAR_DATUM_ID", "PORE_PRESSURE_GROUP_ID", "PORE_PRESSURE_ID",
      "SCENARIO_ID", "SITE_ID", "TEMP_GRADIENT_GROUP_ID", "TEMP_GRADIENT_ID",
      "WELLBORE_ID", "WELL_ID" }

\* the two lists of elements have the same tags and the same attributes
SameElements(d1, d2) ==
    /\ Len(d1) = Len(d2)
    /\ \A i \in 1..Len(d1) :
          /\ d1[i].tag = d2[i].tag
          /\ Len(d1[i].attrs) = Len(d2[i].attrs)
          /\ \A j \in 1..Len(d1[i].attrs) : d1[i].attrs[j].k = d2[i].attrs[j].k

\* the attributes that are no IDs have the same values
SameValues(d1, d2) ==
    \A i \in 1..Len(d1) :
        \A j \in 1..Len(d1[i].attrs) :
            d1[i].attrs[j].k \notin EntityIdAttrs => d1[i].attrs[j].v = d2[i].attrs[j].v

\* the places of the ID attributes
IdOccurrences(d) ==
    UNION { { << i, j >> : j \in { m \in 1..Len(d[i].attrs) :
                                     d[i].attrs[m].k \in EntityIdAttrs } } :
            i \in 1..Len(d) }

\* two ID attributes hold the same ID in one document exactly if they do
\* in the other
SameReferences(d1, d2) ==
    \A o1, o2 \in IdOccurrences(d1) :
        (d1[o1[1]].attrs[o1[2]].v = d1[o2[1]].attrs[o2[2]].v)
            <=> (d2[o1[1]].attrs[o1[2]].v = d2[o2[1]].attrs[o2[2]].v)

\* both calls have returned a document
BothReturned ==
    /\ pc[1] = "returned" /\ pc[2] = "returned"
    /\ result[1].status = "ok" /\ result[2].status = "ok"

\* C20: the two documents generate_xml returns for the same template and
\* the same payload object have the same elements, the same values in the
\* attributes that are no IDs, and the same references between elements.
C20_SameTwice ==
    BothReturned =>
        LET d1 == Flat(Returned(1), 1)
            d2 == Flat(Returned(2), 1)
        IN  SameElements(d1, d2) /\ SameValues(d1, d2) /\ SameReferences(d1, d2)

\* the part of it that is about the number of elements and the references
SameCountsAndReferences ==
    BothReturned =>
        LET d1 == Flat(Returned(1), 1)
            d2 == Flat(Returned(2), 1)
        IN  SameElements(d1, d2) /\ SameReferences(d1, d2)

(***************************************************************************)
(* The equivalent mud weight of a pressure row.                            *)
(***************************************************************************)
MaxEmwRows == 2

EmwPressures == { 0, 520, 1000, 2600 }
EmwDepths == { 0, 1000, 5000 }

\* pressure rows of every type, with and without an emw of their own
EmwRows ==
    { << KV("depth", d), KV("pressure", q), KV("pressureType", t) >> \o e :
        d \in EmwDepths, q \in EmwPressures, t \in { "Pore", "Frac", "Hydrostatic" },
        e \in { << >>, << KV("emw", 9) >> } }

\* lists of one row, and lists of two rows of which the first is a pore row
\* at 1000 with pressure 520
EmwRowLists ==
    { << r >> : r \in EmwRows }
    \cup { << PoreRow, r >> : r \in { x \in EmwRows : MaxEmwRows >= 2 } }

InitEmw == Started(FullWorkload)

\* formation.py 64-157 on an empty export element and a new registry
EmwGenerate(c) ==
    /\ pc[c] = "idle"
    /\ \E rows \in EmwRowLists :
          LET formation_inputs == << KV("pressureProfiles", rows) >>
              r == update_formation_inputs(NewIDRegistry, rng, << >>, formation_inputs)
          IN  /\ payload' = [payload EXCEPT ![c] =
                                << KV("formationInputs", formation_inputs) >>]
              /\ doc' = [doc EXCEPT ![c] = Doc("export", << >>, r.export)]
              /\ generator' = [generator EXCEPT !.id_registry = r.reg]
              /\ rng' = r.rng
    /\ Goto(c, "generated")
    /\ UNCHANGED << result, ncalls, workload, apiVars >>

\* profile_handlers.py 87-244 on a document that holds both pressure groups
EmwEdit(c) ==
    /\ pc[c] = "idle"
    /\ \E rows \in EmwRowLists :
          LET r == update_pressure_profiles(EditGroups, rng, "well1", "bore1",
                                            "pg1", "fg1", rows)
          IN  /\ payload' = [payload EXCEPT ![c] =
                     << KV("formationInputs", << KV("pressureProfiles", rows) >>) >>]
              /\ doc' = [doc EXCEPT ![c] = Doc("export", << >>, r.root)]
              /\ rng' = r.rng
    /\ Goto(c, "edited")
    /\ UNCHANGED << generator, result, ncalls, workload, apiVars >>

\* the caller has taken the document; the next request gets a new registry
\* (ids.py 13) or a new editor (xml_controller.py), and the random stream
\* is taken from its start again
EmwDone(c) ==
    /\ pc[c] \in { "generated", "edited" }
    /\ pc' = [pc EXCEPT ![c] = "idle"]
    /\ payload' = [payload EXCEPT ![c] = EmptyDict]
    /\ doc' = [doc EXCEPT ![c] = NoDoc]
    /\ generator' = [id_registry |-> NewIDRegistry]
    /\ rng' = 0
    /\ UNCHANGED << result, ncalls, workload, apiVars >>

NextEmw == EmwGenerate(1) \/ EmwEdit(1) \/ EmwDone(1)

SpecEmw == InitEmw /\ [][NextEmw]_vars

\* pressure / (0.052 * depth) in thousandths, 0 at depth 0
EmwThousandths(pressure, depth) ==
    IF depth > 0
    THEN LET whole == (pressure * 1000) \div (52 * depth)
             rest  == (pressure * 1000) % (52 * depth)
         IN  whole * 1000 + (rest * 1000) \div (52 * depth)
    ELSE 0

\* the decimal strings that read as the number of thousandths: a zero is
\* written "0" by str(0) and "0.0" by str(0.0)
Numerals(q) ==
    IF q = 0 THEN { "0", "0.0", "0.000" }
    ELSE { ToString(q \div 1000) \o "." \o Pad3(q % 1000) }

\* the EMW attributes of the points written for the rows of one type agree
\* with the rows: one point per row, and for a row without an emw of its
\* own the attribute reads as pressure / (0.052 * depth), or as 0 at depth 0
EmwDerived(rows, points, kind) ==
    /\ Len(points) = Len(rows)
    /\ \A i \in 1..Len(points) :
          \E j \in 1..Len(rows) :
              /\ ElemGet(points[i], "TVD") = StrFloat(DictGet(rows[j], "depth", 0))
              /\ ElemGet(points[i], kind.pressure_key)
                    = StrFloat(DictGet(rows[j], "pressure", 0))
              /\ DictHas(rows[j], "emw") =>
                    ElemGet(points[i], kind.emw_key) = StrFloat(DictGet(rows[j], "emw", 0))
              /\ ~ DictHas(rows[j], "emw") =>
                    ElemGet(points[i], kind.emw_key)
                       \in Numerals(EmwThousandths(DictGet(rows[j], "pressure", 0),
                                                   DictGet(rows[j], "depth", 0)))

\* the points of a kind a handler has written: the old points of the
\* template carry no EMW attribute
NewPoints(export, kind) ==
    SelectSeq(export, LAMBDA e : e.tag = kind.point_tag /\ ElemHas(e, kind.emw_key))

\* C21: for a pressure row without an emw of its own the EMW attribute of
\* the emitted point is pressure / (0.052 * depth) when depth > 0 and zero
\* when depth is 0, for pore and for frac rows, after generation and after
\* a template-mode update.
C21_EmwDerived ==
    pc[1] \in { "generated", "edited" } =>
        LET rows == DictGet(DictGet(payload[1], "formationInputs", EmptyDict),
                            "pressureProfiles", << >>)
        IN  \A kind \in { PoreKind, FracKind } :
                EmwDerived(OfType(rows, DictGet(<< KV("CD_PORE_PRESSURE", "Pore"),
                                                  KV("CD_FRAC_GRADIENT", "Frac") >>,
                                                kind.point_tag, None)),
                           NewPoints(doc[1].export, kind), kind)

\* a template-mode update that wrote a frac point with EMW 10.0 for a row at
\* 5000 with pressure 2600 and no emw of its own
C21_Witness ==
    /\ pc[1] = "edited"
    /\ \E e \in SeqToSet(doc[1].export) :
          /\ e.tag = "CD_FRAC_GRADIENT"
          /\ ElemGet(e, "TVD") = "5000.0"
          /\ ElemGet(e, "FRAC_GRADIENT_EMW") = "10.000"

(***************************************************************************)
(* The order of the steps of generate_xml (core.py 36-178).                *)
(***************************************************************************)
\* the places of one call, in the order of the statements of generate_xml
StepsInOrder ==
    << "idle", "prepare_ids", "clear", "project_info", "scenario", "dls", "casing",
       "survey", "formation", "datum", "cases", "validate", "inject", "returned" >>

PlaceOf(label) == CHOOSE n \in 1..Len(StepsInOrder) : StepsInOrder[n] = label

\* the body of generate_xml goes from each statement to the next, leaves by
\* the raise of core.py 167 or by the return, and is entered again only
\* for the next request
OrchestratorOrder ==
    [][pc'[1] # pc[1] =>
          \/ pc[1] \in { "returned", "raised" } /\ pc'[1] = "idle"
          \/ pc[1] = "validate" /\ pc'[1] = "raised"
          \/ /\ pc[1] \notin { "returned", "raised" }
             /\ pc'[1] \in SeqToSet(StepsInOrder)
             /\ PlaceOf(pc'[1]) = PlaceOf(pc[1]) + 1]_vars

\* until the purge has run the document is the template with the fixed
\* sections, the handlers having written nothing
NoWriteBeforePurge ==
    pc[1] \in { "prepare_ids", "clear" } =>
        \E t \in 1..Len(Templates) :
            doc[1].export = FixedSections(LoadTemplate(Templates[t]).export)

\* a result is produced only by the step that follows a passed validation
SerializedAfterValidation ==
    [][(result'[1].status = "ok" /\ result[1].status # "ok") =>
          (pc[1] = "inject" /\ validate_references(generator.id_registry) = << >>)]_vars

\* a step of a running call that adds a CD_CASE element to the document
LinksCases ==
    /\ pc[1] \notin { "idle", "returned", "raised" }
    /\ pc'[1] \notin { "idle" }
    /\ Len(FindAll(doc'[1].export, "CD_CASE")) > Len(FindAll(doc[1].export, "CD_CASE"))

\* C22: in every generation call the steps happen once each in the order
\* load, fixed sections, ID preparation, purge, project identity, scenario,
\* DLS overrides, casing schematics, survey header, formation inputs, datum,
\* case linking, validation, serialization: the Case elements are written
\* by the case-linking step that follows the datum, and by no earlier step.
C22_CasesLinkedAfterDatum == [][LinksCases => pc[1] = "cases"]_vars

\* the Case elements are written at the end of the scenario step
\* (scenario.py 69), and the case-linking step of core.py 162 adds none
CasesLinkedWithScenario == [][LinksCases => pc[1] = "scenario"]_vars

(***************************************************************************)
(* Repeated invocation of the case linker within one call.                 *)
(***************************************************************************)
MaxInvocations == 3

\* the document after k invocations of add_case_elements
RECURSIVE Linked(_, _, _)
Linked(reg, export, k) ==
    IF k = 0 THEN export ELSE Linked(reg, add_case_elements(reg, export), k - 1)

\* the places of a call at which the linker has been or can be invoked
LinkerPlaces == { "dls", "casing", "survey", "formation", "datum", "cases", "validate" }

\* C23: within one generation pass the number of CD_CASE elements after k
\* invocations of add_case_elements, k >= 1, is the number after the first:
\* invoked on a document that holds Case elements the linker adds none.
C23_LinkerAddsNoCaseTwice ==
    pc[1] \in LinkerPlaces =>
        /\ \A k \in 1..MaxInvocations :
              Len(FindAll(Linked(generator.id_registry, doc[1].export, k), "CD_CASE"))
                 = Len(FindAll(Linked(generator.id_registry, doc[1].export, 1), "CD_CASE"))
        /\ Truthy(FindAll(doc[1].export, "CD_CASE")) =>
              add_case_elements(generator.id_registry, doc[1].export) = doc[1].export

\* C23 witness: the linker has run a second time (core.py 162) on a
\* document that held the two Case elements of its first run
C23_Witness ==
    /\ pc[1] = "validate"
    /\ Len(FindAll(doc[1].export, "CD_CASE")) = 2
    /\ Len(IdsOf(generator.id_registry, "CASE")) = 2

(***************************************************************************)
(* The display name of the Scenario (scenario.py 53-59).                   *)
(***************************************************************************)
\* the well of the payload of call c
WellOf(c) == DictGet(DictGet(payload[c], "projectInfo", EmptyDict), "well", EmptyDict)

\* the name the Scenario is to carry: the well's common name when the
\* payload holds one, "Scenario" otherwise
ExpectedScenarioName(c) ==
    IF DictHas(WellOf(c), "wellCommonName")
    THEN DictGet(WellOf(c), "wellCommonName", None)
    ELSE "Scenario"

\* C24: in a returned document the NAME of the CD_SCENARIO element is the
\* wellCommonName of the payload's well whenever the payload supplies one,
\* with or without a wellId, and "Scenario" only when it supplies none.
C24_ScenarioNamedAfterWell ==
    (pc[1] = "returned" /\ result[1].status = "ok") =>
        \A i \in 1..Len(Returned(1)) :
            Returned(1)[i].tag = "CD_SCENARIO" =>
                ElemGet(Returned(1)[i], "NAME") = ExpectedScenarioName(1)

\* a well that brought its wellId gives the Scenario its common name
ScenarioNamedWhenWellIdSent ==
    (pc[1] = "returned" /\ result[1].status = "ok"
     /\ DictHas(DictGet(DictGet(SentPayload, "projectInfo", EmptyDict), "well", EmptyDict),
                "wellId")) =>
        \A i \in 1..Len(Returned(1)) :
            Returned(1)[i].tag = "CD_SCENARIO" =>
                ElemGet(Returned(1)[i], "NAME") = ExpectedScenarioName(1)

\* a well with a common name that brought no wellId: the Scenario is named
\* "Scenario"
ScenarioDefaultWhenIdGenerated ==
    (pc[1] = "returned" /\ result[1].status = "ok"
     /\ ~ DictHas(DictGet(DictGet(SentPayload, "projectInfo", EmptyDict), "well",
                          EmptyDict), "wellId")) =>
        \A i \in 1..Len(Returned(1)) :
            Returned(1)[i].tag = "CD_SCENARIO" =>
                ElemGet(Returned(1)[i], "NAME") = "Scenario"

(***************************************************************************)
(* What the purge of a list-section handler of the editor removes.         *)
(***************************************************************************)
\* the elements of the member tag of section s that belong to another group
OtherMembers(root, s) ==
    SelectSeq(root, LAMBDA e : e.tag = s.member_tag /\ ElemGet(e, s.group_key) # s.group_id)

\* the member tags the handler of the statement writes
MemberTags(c, step) == { s.member_tag : s \in { x \in EditSections(c) : x.step = step } }

\* the group elements the handler of the statement may set an attribute of
GroupTags(c, step) == { s.group_tag : s \in { x \in EditSections(c) : x.step = step } }

\* the elements that are neither members nor groups of the statement
OtherTags(c, root, step) ==
    SelectSeq(root, LAMBDA e : e.tag \notin (MemberTags(c, step) \cup GroupTags(c, step)))

\* the handler of section s is called on a document that holds its anchor
Handles(c, s) == pc[c] = s.step /\ s.requested /\ Anchor(RootOf(c), s) > 0

\* the step of section s removes the members of the anchor's group, leaves
\* the members of other groups, and leaves the elements of other tags
PurgesOwnGroupOnly(s) ==
    Handles(1, s) =>
        /\ \A i \in Members(doc[1].export, s) :
              doc[1].export[i] \notin SeqToSet(doc'[1].export)
        /\ OtherMembers(doc'[1].export, s) = OtherMembers(doc[1].export, s)
        /\ OtherTags(1, doc'[1].export, s.step) = OtherTags(1, doc[1].export, s.step)

\* C25: the purge of a list-section handler removes exactly the members
\* whose group key equals the ID of the anchor group; members of the same
\* tag that belong to another group, and elements of other tags, are left
\* as they were.
C25_PurgeOwnGroupOnly ==
    [][(Editing(1) /\ pc[1] # "returned") =>
          \A s \in EditSections(1) : PurgesOwnGroupOnly(s)]_vars

\* the same for the temperature, DLS and survey sections alone
PurgeOwnGroupOnlyButPressure ==
    [][(Editing(1) /\ pc[1] # "returned") =>
          \A s \in EditSections(1) : s.step # "edit_pressure" => PurgesOwnGroupOnly(s)]_vars

\* update_pressure_profiles removes every pore and every frac point of the
\* document, whatever its group
PressurePurgesEveryGroup ==
    [][pc[1] = "edit_pressure" =>
          \A s \in EditSections(1) :
             (s.step = "edit_pressure" /\ s.requested) =>
                OtherMembers(doc'[1].export, s) = << >>]_vars

(***************************************************************************)
(* A list-section handler of the editor on a document without its anchor.  *)
(***************************************************************************)
\* the handler of section s is called on a document that lacks its anchor
AnchorAbsent(c, s) == pc[c] = s.step /\ s.requested /\ Anchor(RootOf(c), s) = 0

\* the statement that follows the one with the label
NextStep(label) ==
    EditSteps[(CHOOSE i \in 1..Len(EditSteps) : EditSteps[i] = label) + 1]

\* the step inserts no element of the member tag of section s
InsertsNone(s) ==
    \A e \in SeqToSet(FindAll(doc'[1].export, s.member_tag)) :
        e \in SeqToSet(FindAll(doc[1].export, s.member_tag))

\* the step removes no element of the member tag of section s
RemovesNone(s) ==
    \A e \in SeqToSet(FindAll(doc[1].export, s.member_tag)) :
        e \in SeqToSet(FindAll(doc'[1].export, s.member_tag))

\* C26: when the anchor element of a requested section is absent from the
\* template the handler removes no existing element and inserts none for
\* the section, and the update goes on with the next section.
C26_AbsentAnchorSkipped ==
    [][(Editing(1) /\ pc[1] # "returned") =>
          \A s \in EditSections(1) :
             AnchorAbsent(1, s) =>
                /\ RemovesNone(s)
                /\ InsertsNone(s)
                /\ pc'[1] = NextStep(s.step)]_vars

\* without the anchor the handler inserts nothing and the update goes on
AbsentAnchorInsertsNone ==
    [][(Editing(1) /\ pc[1] # "returned") =>
          \A s \in EditSections(1) :
             AnchorAbsent(1, s) => (InsertsNone(s) /\ pc'[1] = NextStep(s.step))]_vars

\* without the anchor the members that name the absent group are removed
AbsentAnchorPurged ==
    [][(Editing(1) /\ pc[1] # "returned") =>
          \A s \in EditSections(1) :
             AnchorAbsent(1, s) => Members(doc'[1].export, s) = {}]_vars

(***************************************************************************)
(* What a template-mode update leaves as it was.                           *)
(***************************************************************************)
\* the elements that carry the IDs an update works with, and the attribute
IdentityKeys ==
    { << "CD_SITE", "SITE_ID" >>, << "CD_WELL", "WELL_ID" >>,
      << "CD_WELLBORE", "WELLBORE_ID" >>, << "CD_SCENARIO", "SCENARIO_ID" >>,
      << "CD_TEMP_GRADIENT_GROUP", "TEMP_GRADIENT_GROUP_ID" >>,
      << "CD_PORE_PRESSURE_GROUP", "PORE_PRESSURE_GROUP_ID" >>,
      << "CD_FRAC_GRADIENT_GROUP", "FRAC_GRADIENT_GROUP_ID" >>,
      << "TU_DLS_OVERRIDE_GROUP", "DLS_OVERRIDE_GROUP_ID" >>,
      << "CD_DEFINITIVE_SURVEY_HEADER", "DEF_SURVEY_HEADER_ID" >>,
      << "CD_DATUM", "DATUM_ID" >> }

\* the values of an attribute on the elements of a tag, in document order
Values(root, tag, attr) ==
    [i \in 1..Len(FindAll(root, tag)) |-> ElemGet(FindAll(root, tag)[i], attr)]

\* the sections of a payload: whether the payload of call c supplies it,
\* and the elements that belong to it
PayloadSections(c) ==
    { [supplied |-> DictHas(FormationOf(c), "temperatureProfiles"),
       tags |-> { "CD_TEMP_GRADIENT_GROUP", "CD_TEMP_GRADIENT" }],
      [supplied |-> DictHas(FormationOf(c), "pressureProfiles"),
       tags |-> { "CD_PORE_PRESSURE_GROUP", "CD_PORE_PRESSURE",
                  "CD_FRAC_GRADIENT_GROUP", "CD_FRAC_GRADIENT" }],
      [supplied |-> DictHas(FormationOf(c), "dlsOverrideGroup"),
       tags |-> { "TU_DLS_OVERRIDE_GROUP", "TU_DLS_OVERRIDE" }],
      [supplied |-> DictHas(FormationOf(c), "surveyHeader"),
       tags |-> { "CD_DEFINITIVE_SURVEY_HEADER", "CD_DEFINITIVE_SURVEY_STATION" }],
      [supplied |-> DictHas(payload[c], "datum"),
       tags |-> { "CD_DATUM" }],
      [supplied |-> DictHas(payload[c], "casingSchematics"),
       tags |-> { "CD_ASSEMBLY", "CD_ASSEMBLY_COMP", "CD_WEQP_PACKER", "CD_CASE" }] }

\* the attributes an update may set on an element of the identity: its
\* name and the update stamp
NameAndStamp(tag) == { NameAttr(tag), "UPDATE_DATE", "UPDATE_USER_ID", "UPDATE_APP_ID" }

\* the attributes of an element other than those of the set
Except(e, keys) == SelectSeq(e.attrs, LAMBDA kv : kv.k \notin keys)

\* C27: a statement of a template-mode update leaves the ID attributes of
\* the Site, Well, Wellbore, Scenario, group, header and datum elements of
\* the template as they were, changes a Site, Well, Wellbore or Scenario
\* in nothing but its name and update stamp, and leaves every element of a
\* section the payload does not supply unchanged.
C27_UpdateFrame ==
    [][(Editing(1) /\ pc[1] # "returned") =>
          /\ \A ik \in IdentityKeys :
                Values(doc'[1].export, ik[1], ik[2]) = Values(doc[1].export, ik[1], ik[2])
          /\ \A tag \in { "CD_SITE", "CD_WELL", "CD_WELLBORE", "CD_SCENARIO" } :
                /\ Len(FindAll(doc'[1].export, tag)) = Len(FindAll(doc[1].export, tag))
                /\ \A i \in 1..Len(FindAll(doc[1].export, tag)) :
                      Except(FindAll(doc'[1].export, tag)[i], NameAndStamp(tag))
                         = Except(FindAll(doc[1].export, tag)[i], NameAndStamp(tag))
          /\ \A s \in PayloadSections(1) : \A tag \in s.tags :
                ~ s.supplied => FindAll(doc'[1].export, tag) = FindAll(doc[1].export, tag)
      ]_vars

\* C27 witness: an update has returned that renamed the Site and replaced
\* the pressure points, the payload supplying neither temperature rows nor
\* a datum: the old temperature point and the old datum are in the document
C27_Witness ==
    /\ pc[1] = "returned" /\ Editing(1) /\ result[1].status = "ok"
    /\ DictHas(FormationOf(1), "pressureProfiles")
    /\ ~ DictHas(FormationOf(1), "temperatureProfiles")
    /\ ~ DictHas(payload[1], "datum")
    /\ \E e \in SeqToSet(doc[1].export) :
          e.tag = "CD_SITE" /\ ElemGet(e, "SITE_ID") = "site1"
          /\ ElemGet(e, "SITE_NAME") # "Old site"
    /\ \E e \in SeqToSet(doc[1].export) :
          e.tag = "CD_TEMP_GRADIENT" /\ ElemGet(e, "TEMP_GRADIENT_ID") = "oldtemp"
    /\ \E e \in SeqToSet(doc[1].export) :
          e.tag = "CD_DATUM" /\ ElemGet(e, "DATUM_NAME") = "Old datum"
    /\ \E e \in SeqToSet(doc[1].export) : e.tag = "CD_PORE_PRESSURE" /\ ElemGet(e, "TVD") # "100.0"

(***************************************************************************)
(* The order of the attributes of the elements the handlers create.        *)
(***************************************************************************)
\* the place of an attribute in ATTRIBUTE_ORDER, 0 for one that is not listed
PlaceInOrder(attr) ==
    IF \E n \in 1..Len(ATTRIBUTE_ORDER) : ATTRIBUTE_ORDER[n] = attr
    THEN CHOOSE n \in 1..Len(ATTRIBUTE_ORDER) : ATTRIBUTE_ORDER[n] = attr
    ELSE 0

\* the listed attributes of the element appear in the order of the list
InListOrder(e) ==
    \A i, j \in 1..Len(e.attrs) :
        (i < j /\ PlaceInOrder(e.attrs[i].k) > 0 /\ PlaceInOrder(e.attrs[j].k) > 0)
        => PlaceInOrder(e.attrs[i].k) < PlaceInOrder(e.attrs[j].k)

\* the elements made through set_attributes_ordered (project_info.py,
\* scenario.py, casing.py), and those made by element.set in the handler's
\* own order (formation.py, dls.py, survey.py, datum.py)
OrderedTags ==
    { "CD_SITE", "CD_WELL", "CD_WELLBORE", "CD_SCENARIO", "CD_CASE",
      "CD_ASSEMBLY", "CD_ASSEMBLY_COMP" }

DirectTags ==
    { "CD_TEMP_GRADIENT_GROUP", "CD_TEMP_GRADIENT", "CD_PORE_PRESSURE_GROUP",
      "CD_PORE_PRESSURE", "CD_FRAC_GRADIENT_GROUP", "CD_FRAC_GRADIENT",
      "TU_DLS_OVERRIDE_GROUP", "TU_DLS_OVERRIDE", "CD_DEFINITIVE_SURVEY_HEADER",
      "CD_DEFINITIVE_SURVEY_STATION", "CD_DATUM" }

\* the elements of the tags that a handler of this call has created
CreatedOf(c, tags) ==
    { e \in SeqToSet(Returned(c)) : e.tag \in tags /\ ~ FromTemplate(e) }

\* C28: on every element an entity handler has constructed the attributes
\* that belong to ATTRIBUTE_ORDER appear in the relative order of the list:
\* well, wellbore and site IDs before the secondary and group IDs, those
\* before names and flags, the audit attributes after all other listed ones.
C28_AttributesInListOrder ==
    (pc[1] = "returned" /\ result[1].status = "ok") =>
        \A e \in CreatedOf(1, OrderedTags \cup DirectTags) : InListOrder(e)

\* the elements made through set_attributes_ordered are in the order
OrderedHandlersInListOrder ==
    (pc[1] = "returned" /\ result[1].status = "ok") =>
        \A e \in CreatedOf(1, OrderedTags) : InListOrder(e)

\* on every created element the audit attributes come last
AuditLast ==
    (pc[1] = "returned" /\ result[1].status = "ok") =>
        \A e \in CreatedOf(1, OrderedTags \cup DirectTags) :
            \A i, j \in 1..Len(e.attrs) :
                (i < j /\ e.attrs[i].k \in { a.k : a \in SeqToSet(Audit) })
                => e.attrs[j].k \in { a.k : a \in SeqToSet(Audit) }

(***************************************************************************)
(* The references of the elements a generation keeps from the template.    *)
(***************************************************************************)
\* an element the template of the purge catalogue held
Retained(e) ==
    \E t \in 1..Len(PurgeTemplates) :
        e \in SeqToSet(LoadTemplate(PurgeTemplates[t]).export)

\* the references to the project's identity: the attribute and the element
\* whose ID it names
IdentityReferences ==
    { << "SCENARIO_ID", "CD_SCENARIO" >>, << "WELL_ID", "CD_WELL" >>,
      << "WELLBORE_ID", "CD_WELLBORE" >>, << "SITE_ID", "CD_SITE" >> }

\* the reference of the element names an element of the document
RefResolves(export, e, ref) ==
    \E x \in SeqToSet(FindAll(export, ref[2])) : ElemGet(x, ref[1]) = ElemGet(e, ref[1])

\* C29: after a generation every SCENARIO_ID, WELL_ID, WELLBORE_ID and
\* SITE_ID attribute of an element kept from the template is the ID of a
\* Scenario, Well, Wellbore or Site element of the returned document.
C29_RetainedReferencesResolve ==
    (pc[1] = "returned" /\ result[1].status = "ok") =>
        \A e \in SeqToSet(Returned(1)) : \A ref \in IdentityReferences :
            (Retained(e) /\ ElemHas(e, ref[1])) => RefResolves(Returned(1), e, ref)

\* every Scenario reference of a kept element names a Scenario that the
\* purge has removed
RetainedScenarioReferencesDangle ==
    (pc[1] = "returned" /\ result[1].status = "ok") =>
        \A e \in SeqToSet(Returned(1)) :
            (Retained(e) /\ ElemHas(e, "SCENARIO_ID"))
            => ~ RefResolves(Returned(1), e, << "SCENARIO_ID", "CD_SCENARIO" >>)

(***************************************************************************)
(* Generated IDs against the other IDs of the document.                    *)
(***************************************************************************)
\* the elements that carry an ID of their own: the tag, the attribute and
\* the type the registry lists the ID under
OwnIds ==
    { << "CD_SITE", "SITE_ID", "SITE" >>, << "CD_WELL", "WELL_ID", "WELL" >>,
      << "CD_WELLBORE", "WELLBORE_ID", "WELLBORE" >>,
      << "CD_SCENARIO", "SCENARIO_ID", "SCENARIO" >>,
      << "CD_CASE", "CASE_ID", "CASE" >>, << "CD_DATUM", "DATUM_ID", "DATUM" >>,
      << "CD_MATERIAL", "MATERIAL_ID", "MATERIAL" >>,
      << "CD_ASSEMBLY", "ASSEMBLY_ID", "ASSEMBLY" >>,
      << "CD_ASSEMBLY_COMP", "ASSEMBLY_COMP_ID", "ASSEMBLY_COMP" >>,
      << "CD_TEMP_GRADIENT_GROUP", "TEMP_GRADIENT_GROUP_ID", "TEMP_GRADIENT_GROUP" >>,
      << "CD_TEMP_GRADIENT", "TEMP_GRADIENT_ID", "TEMP_GRADIENT" >>,
      << "CD_PORE_PRESSURE_GROUP", "PORE_PRESSURE_GROUP_ID", "PORE_PRESSURE_GROUP" >>,
      << "CD_PORE_PRESSURE", "PORE_PRESSURE_ID", "PORE_PRESSURE" >>,
      << "CD_FRAC_GRADIENT_GROUP", "FRAC_GRADIENT_GROUP_ID", "FRAC_GRADIENT_GROUP" >>,
      << "CD_FRAC_GRADIENT", "FRAC_GRADIENT_ID", "FRAC_GRADIENT" >>,
      << "TU_DLS_OVERRIDE_GROUP", "DLS_OVERRIDE_GROUP_ID", "DLS_OVERRIDE_GROUP" >>,
      << "TU_DLS_OVERRIDE", "DLS_OVERRIDE_ID", "DLS_OVERRIDE" >>,
      << "CD_DEFINITIVE_SURVEY_HEADER", "DEF_SURVEY_HEADER_ID", "SURVEY_HEADER" >>,
      << "CD_DEFINITIVE_SURVEY_STATION", "DEFINITIVE_SURVEY_ID", "SURVEY_STATION" >> }

\* the types whose ID prepare_ids always generates and then registers with
\* a name (ids.py 49-51, 132-133, 146-150, 241-242)
AlwaysGenerated ==
    { "SCENARIO", "CASE", "TEMP_GRADIENT_GROUP", "PORE_PRESSURE_GROUP",
      "FRAC_GRADIENT_GROUP" }

\* the element has the ID of the kind
Carries(e, own) == e.tag = own[1] /\ ElemHas(e, own[2])

\* the ID of the element was generated in this call: the element is not of
\* the template, and the registry holds no data the payload sent with the ID
\* (generate_id stores none, register_entity stores the payload's entity)
GeneratedId(reg, e, own) ==
    /\ Carries(e, own)
    /\ ~ Retained(e)
    /\ own[3] \in AlwaysGenerated
          \/ ~ Truthy(get_entity_data(reg, own[3], ElemGet(e, own[2])))

\* C30: every ID generated in a call differs from every ID of an element
\* kept from the template and from every other ID generated or supplied in
\* the call: no element of the returned document has the ID of an element
\* whose ID was generated.
C30_GeneratedIdsDiffer ==
    (pc[1] = "returned" /\ result[1].status = "ok") =>
        \A i, j \in 1..Len(Returned(1)) : \A a, b \in OwnIds :
            (/\ i # j
             /\ GeneratedId(generator.id_registry, Returned(1)[i], a)
             /\ Carries(Returned(1)[j], b))
            => ElemGet(Returned(1)[i], a[2]) # ElemGet(Returned(1)[j], b[2])

\* no two elements created in the call have the same generated ID
GeneratedIdsDifferFromEachOther ==
    (pc[1] = "returned" /\ result[1].status = "ok") =>
        \A i, j \in 1..Len(Returned(1)) : \A a, b \in OwnIds :
            (/\ i # j
             /\ GeneratedId(generator.id_registry, Returned(1)[i], a)
             /\ GeneratedId(generator.id_registry, Returned(1)[j], b))
            => ElemGet(Returned(1)[i], a[2]) # ElemGet(Returned(1)[j], b[2])

\* a generated ID differs from the IDs of the elements kept from the template
GeneratedIdsDifferFromRetained ==
    (pc[1] = "returned" /\ result[1].status = "ok") =>
        \A i, j \in 1..Len(Returned(1)) : \A a, b \in OwnIds :
            (/\ GeneratedId(generator.id_registry, Returned(1)[i], a)
             /\ Carries(Returned(1)[j], b) /\ Retained(Returned(1)[j]))
            => ElemGet(Returned(1)[i], a[2]) # ElemGet(Returned(1)[j], b[2])

====
